---- MODULE Spec2Model ----
(***************************************************************************)
(* Frame lifecycle of bevy_spine: the Update schedule of SpinePlugin, the  *)
(* skeleton-data asset state machine (spine_load), the spawner             *)
(* (spine_spawn), the command flush, the ready dispatcher (spine_ready),   *)
(* the animation tick (spine_update_animation) and the mesh builder        *)
(* (spine_update_meshes).                                                  *)
(***************************************************************************)
EXTENDS Integers, Sequences, FiniteSets, TLC

\* Bounds of the model.
MaxEnt == 2
MaxData == 1
MaxSlots == 2
MaxBones == 1
MaxTranslation == 2
MaxReach == 1
MaxSynced == 1
MaxAtlases == 2
MaxTreeBones == 4
MaxVertices == 2
MaxDrawn == 1

Ent == 1..MaxEnt
Data == 1..MaxData

(***************************************************************************)
(* The Update schedule (lib.rs, SpinePlugin::build).  Each entry is one    *)
(* system with the sets it is in and the sets it is ordered after/before.  *)
(* on_ready and on_event stand for user systems placed in the helper sets  *)
(* SpineSet::OnReady and SpineSet::OnEvent.                                *)
(***************************************************************************)
UserSystems ==
  { [sys |-> "on_ready", in |-> {"OnReady"}, after |-> {}, before |-> {}],
    [sys |-> "on_event", in |-> {"OnEvent"}, after |-> {}, before |-> {}] }

\* spine_load.in_set(SpineSystem::Load)
LoadSystem ==
  [sys |-> "spine_load", in |-> {"Load"}, after |-> {}, before |-> {}]

\* spine_spawn.in_set(SpineSystem::Spawn).after(SpineSystem::Load)
SpawnSystem ==
  [sys |-> "spine_spawn", in |-> {"Spawn"}, after |-> {"Load"}, before |-> {}]

\* spine_ready.in_set(SpineSystem::Ready).after(SpineSystem::Spawn)
\*   .before(SpineSet::OnReady)
ReadySystem ==
  [sys |-> "spine_ready", in |-> {"Ready"}, after |-> {"Spawn"},
   before |-> {"OnReady"}]

\* spine_update_animation.in_set(SpineSystem::UpdateAnimation)
\*   .after(SpineSet::OnReady).before(SpineSet::OnEvent)
UpdateAnimationSystem ==
  [sys |-> "spine_update_animation", in |-> {"UpdateAnimation"},
   after |-> {"OnReady"}, before |-> {"OnEvent"}]

\* spine_update_meshes.in_set(SpineSystem::UpdateMeshes)
\*   .in_set(SpineSet::OnUpdateMesh).after(SpineSystem::UpdateAnimation)
\*   .after(SpineSet::OnEvent)
UpdateMeshesSystem ==
  [sys |-> "spine_update_meshes", in |-> {"UpdateMeshes", "OnUpdateMesh"},
   after |-> {"UpdateAnimation", "OnEvent"}, before |-> {}]

\* apply_deferred.in_set(SpineSystem::SpawnFlush).after(SpineSystem::Spawn)
\*   .before(SpineSystem::Ready)
SpawnFlushSystem ==
  [sys |-> "apply_deferred", in |-> {"SpawnFlush"}, after |-> {"Spawn"},
   before |-> {"Ready"}]

\* entity_sync.rs and examples/crossfades.rs order systems against
\* SpineSystem::Update and SpineSystem::Render, names the SpineSystem enum of
\* lib.rs does not have: they are read as the set of the animation tick and
\* the set of the mesh builder.
Update == "UpdateAnimation"
Render == "UpdateMeshes"

\* The sync tags: SpineSync, registered by SpinePlugin through
\* SpineSynchronizerPlugin::first(), and MySpineSync, registered by the
\* application with SpineSynchronizerPlugin::<MySpineSync, SpineSyncSet>
\* ::default(), that is chained after SpineSync.
SyncTags == { "SpineSync", "MySpineSync" }

\* SpineSynchronizerSystem::<T>::.. and SpineSynchronizerSet::<T>::..
SetOf(variant, T) == variant \o "<" \o T \o ">"

\* spine_sync_entities::<T>, spine_sync_bones::<T>, ..
SystemOf(system, T) == system \o "<" \o T \o ">"

\* Mutant: phase 1 is not ordered after the plugin's predecessor set.
SpineSynchronizerPlugin_NotAfterPredecessor(T, after) ==
  { [sys |-> SystemOf("spine_sync_entities", T),
     in |-> {SetOf("SyncEntities", T)},
     after |-> {SetOf("BeforeSync", T)},
     before |-> {SetOf("DuringSync", T)}],
    [sys |-> SystemOf("spine_sync_bones", T),
     in |-> {SetOf("SyncBones", T)},
     after |-> {SetOf("SyncEntities", T), SetOf("DuringSync", T)},
     before |-> {}],
    [sys |-> SystemOf("spine_sync_entities_applied", T),
     in |-> {SetOf("SyncEntitiesApplied", T)},
     after |-> {SetOf("SyncBones", T)},
     before |-> {SetOf("AfterSync", T), Render}] }

\* Mutant: phase 4 is not ordered before the mesh builder.
SpineSynchronizerPlugin_NotBeforeRender(T, after) ==
  { [sys |-> SystemOf("spine_sync_entities", T),
     in |-> {SetOf("SyncEntities", T)},
     after |-> {after, SetOf("BeforeSync", T)},
     before |-> {SetOf("DuringSync", T)}],
    [sys |-> SystemOf("spine_sync_bones", T),
     in |-> {SetOf("SyncBones", T)},
     after |-> {SetOf("SyncEntities", T), SetOf("DuringSync", T)},
     before |-> {}],
    [sys |-> SystemOf("spine_sync_entities_applied", T),
     in |-> {SetOf("SyncEntitiesApplied", T)},
     after |-> {SetOf("SyncBones", T)},
     before |-> {SetOf("AfterSync", T)}] }

\* Mutant: phase 3 is ordered after phase 1 only, not after the DuringSync
\* set.
SpineSynchronizerPlugin_BonesNotAfterDuringSync(T, after) ==
  { [sys |-> SystemOf("spine_sync_entities", T),
     in |-> {SetOf("SyncEntities", T)},
     after |-> {after, SetOf("BeforeSync", T)},
     before |-> {SetOf("DuringSync", T)}],
    [sys |-> SystemOf("spine_sync_bones", T),
     in |-> {SetOf("SyncBones", T)},
     after |-> {SetOf("SyncEntities", T)},
     before |-> {}],
    [sys |-> SystemOf("spine_sync_entities_applied", T),
     in |-> {SetOf("SyncEntitiesApplied", T)},
     after |-> {SetOf("SyncBones", T)},
     before |-> {SetOf("AfterSync", T), Render}] }

\* SpineSynchronizerPlugin::<T, After>::build with self.after = after
SpineSynchronizerPlugin(T, after) ==
  { [sys |-> SystemOf("spine_sync_entities", T),
     in |-> {SetOf("SyncEntities", T)},
     after |-> {after, SetOf("BeforeSync", T)},
     before |-> {SetOf("DuringSync", T)}],
    [sys |-> SystemOf("spine_sync_bones", T),
     in |-> {SetOf("SyncBones", T)},
     after |-> {SetOf("SyncEntities", T), SetOf("DuringSync", T)},
     before |-> {}],
    [sys |-> SystemOf("spine_sync_entities_applied", T),
     in |-> {SetOf("SyncEntitiesApplied", T)},
     after |-> {SetOf("SyncBones", T)},
     before |-> {SetOf("AfterSync", T), Render}] }

\* User systems added to the hook sets of tag T, as in the SpineSyncSet doc
\* example: before_sync, during_sync, after_sync.
SyncUserSystems(T) ==
  { [sys |-> SystemOf("before_sync", T), in |-> {SetOf("BeforeSync", T)},
     after |-> {}, before |-> {}],
    [sys |-> SystemOf("during_sync", T), in |-> {SetOf("DuringSync", T)},
     after |-> {}, before |-> {}],
    [sys |-> SystemOf("after_sync", T), in |-> {SetOf("AfterSync", T)},
     after |-> {}, before |-> {}] }

\* Mutant: spine_update_meshes is ordered after the tick only, not after the
\* OnEvent set.
SpinePluginSystems_MeshesNotAfterOnEvent ==
  { LoadSystem, SpawnSystem, ReadySystem, UpdateAnimationSystem, SpawnFlushSystem,
    [UpdateMeshesSystem EXCEPT !.after = {"UpdateAnimation"}] }

\* Mutant: the flush is not ordered before the Ready stage.
SpinePluginSystems_FlushNotBeforeReady ==
  { LoadSystem, SpawnSystem, ReadySystem, UpdateAnimationSystem,
    UpdateMeshesSystem, [SpawnFlushSystem EXCEPT !.before = {}] }

\* Mutant: the tick is ordered after the Ready stage instead of the OnReady set.
SpinePluginSystems_TickNotAfterOnReady ==
  { LoadSystem, SpawnSystem, ReadySystem, UpdateMeshesSystem, SpawnFlushSystem,
    [UpdateAnimationSystem EXCEPT !.after = {"Ready"}] }

SpinePluginSystems ==
  { LoadSystem, SpawnSystem, ReadySystem, UpdateAnimationSystem,
    UpdateMeshesSystem, SpawnFlushSystem }

Schedule == SpinePluginSystems \cup UserSystems

\* The systems of a schedule
SystemsOf(sched) == { c.sys : c \in sched }

\* In schedule sched, a must finish before b may start: a is in a set b is
\* ordered after, or a is ordered before a set b is in.
PrecedesIn(sched, a, b) ==
  \E ca \in sched :
     /\ ca.sys = a
     /\ \E cb \in sched :
           /\ cb.sys = b
           /\ \/ ca.in \cap cb.after # {}
              \/ ca.before \cap cb.in # {}

Systems == SystemsOf(Schedule)

\* a must finish before b may start
Precedes(a, b) == PrecedesIn(Schedule, a, b)

(***************************************************************************)
(* State                                                                   *)
(***************************************************************************)
VARIABLES
  started,              \* systems started in the current frame
  done,                 \* systems finished in the current frame
  atlases,              \* Assets<Atlas>, by the atlas handle of data d
  skeletons,            \* Assets<SkeletonJson> / Assets<SkeletonBinary>
  skeleton_data_assets, \* Assets<SkeletonData>
  world,                \* per root entity: its components and children
  commands,             \* deferred commands queued by spine_spawn
  ready_events,         \* SpineReadyEvents resource
  ready_bus,            \* Events<SpineReadyEvent> sent in this frame
  spine_event_queue,    \* SpineEventQueue resource
  spine_event_bus,      \* Events<SpineEvent> sent in this frame
  spine_textures,       \* SpineTextures resource (SpineTexturesData)
  texture_bus,          \* texture create / dispose events sent in this frame
  hist                  \* observations, per root entity and per data asset

vars == << started, done, atlases, skeletons, skeleton_data_assets, world,
           commands, ready_events, ready_bus, spine_event_queue,
           spine_event_bus, spine_textures, texture_bus, hist >>

\* sync: the sync tags on the root entity; pose: per skeleton bone its local
\* and its applied translation; transforms: per bone entity the translation
\* of its Transform.
NoEntity ==
  [ loader |-> "NoEntity", with_children |-> FALSE, skeleton |-> 1,
    drawer |-> "Combined", spine |-> 0, containers |-> 0,
    meshes |-> << >>, bones |-> 0,
    sync |-> {}, pose |-> << >>, transforms |-> << >> ]

NoAsset ==
  [ status |-> "None", premultiplied_alpha |-> FALSE, slots |-> 0, bones |-> 0 ]

\* SkeletonData::new_from_json / new_from_binary
NewSkeletonData ==
  [ status |-> "Loading", premultiplied_alpha |-> FALSE, slots |-> 0, bones |-> 0 ]

Init ==
  /\ started = {}
  /\ done = {}
  /\ atlases = [d \in Data |-> [state |-> "Pending", pma |-> FALSE]]
  /\ skeletons = [d \in Data |-> [present |-> FALSE, ok |-> FALSE,
                                  slots |-> 0, bones |-> 0]]
  /\ skeleton_data_assets = [d \in Data |-> NoAsset]
  /\ world = [e \in Ent |-> NoEntity]
  /\ commands = << >>
  /\ ready_events = << >>
  /\ ready_bus = << >>
  /\ spine_event_queue = << >>
  /\ spine_event_bus = << >>
  /\ spine_textures = [handles |-> << >>, remember |-> << >>, forget |-> << >>]
  /\ texture_bus = << >>
  /\ hist = [ iter_mut |-> FALSE,
              ready_sent |-> [e \in Ent |-> 0],
              updated |-> [e \in Ent |-> FALSE],
              on_ready_query |-> [e \in Ent |-> "none"],
              parses |-> [d \in Data |-> 0],
              spawn_eligible |-> {},
              listener_calls |-> << >>,
              texture_events |-> << >> ]

(***************************************************************************)
(* The application and the asset server                                    *)
(***************************************************************************)
BetweenFrames == started = {}   \* the Update schedule is not running

\* skeletons.add(SkeletonData::new_from_json(..)) by the application; asset
\* ids are allocated in increasing order
AddSkeletonData(d) ==
  /\ BetweenFrames
  /\ skeleton_data_assets[d].status = "None"
  /\ \A c \in Data : c < d => skeleton_data_assets[c].status # "None"
  /\ skeleton_data_assets' = [skeleton_data_assets EXCEPT ![d] = NewSkeletonData]
  /\ UNCHANGED << started, done, atlases, skeletons, world, commands,
                  ready_events, ready_bus, spine_event_queue, spine_event_bus,
                  spine_textures, texture_bus, hist >>

\* commands.spawn(SpineBundle { skeleton, loader, settings, .. }), applied;
\* entity ids are allocated in increasing order
SpawnBundle(e, d, wc, dr) ==
  /\ BetweenFrames
  /\ world[e].loader = "NoEntity"
  /\ \A f \in Ent : f < e => world[f].loader # "NoEntity"
  /\ world' = [world EXCEPT ![e] =
                 [NoEntity EXCEPT !.loader = "Loading", !.with_children = wc,
                                  !.skeleton = d, !.drawer = dr]]
  /\ UNCHANGED << started, done, atlases, skeletons, skeleton_data_assets,
                  commands, ready_events, ready_bus, spine_event_queue,
                  spine_event_bus, spine_textures, texture_bus, hist >>

\* The page texture path named by the atlas of data d.
TexturePath(d) == d

\* AtlasLoader::load, Ok branch: rusty_spine::Atlas::new runs the create
\* texture callback for the page, then the asset is stored.
AtlasLoaded(d, pma) ==
  /\ BetweenFrames
  /\ atlases[d].state = "Pending"
  /\ atlases' = [atlases EXCEPT ![d] = [state |-> "Loaded", pma |-> pma]]
  /\ spine_textures' =
       [spine_textures EXCEPT !.remember =
          Append(@, [path |-> TexturePath(d), atlas_address |-> d, pma |-> pma])]
  /\ UNCHANGED << started, done, skeletons, skeleton_data_assets, world,
                  commands, ready_events, ready_bus, spine_event_queue,
                  spine_event_bus, texture_bus, hist >>

\* AtlasLoader::load, Err branch: no asset is ever stored for the handle.
AtlasFailed(d) ==
  /\ BetweenFrames
  /\ atlases[d].state = "Pending"
  /\ atlases' = [atlases EXCEPT ![d] = [state |-> "Failed", pma |-> FALSE]]
  /\ UNCHANGED << started, done, skeletons, skeleton_data_assets, world,
                  commands, ready_events, ready_bus, spine_event_queue,
                  spine_event_bus, spine_textures, texture_bus, hist >>

\* SkeletonJsonLoader::load / SkeletonBinaryLoader::load: the bytes are stored
\* unparsed; ok tells whether read_skeleton_data will accept them, slots and
\* bones what the parsed skeleton holds.
SkeletonBytesLoaded(d, ok, ns, nb) ==
  /\ BetweenFrames
  /\ ~skeletons[d].present
  /\ skeletons' = [skeletons EXCEPT ![d] =
                     [present |-> TRUE, ok |-> ok,
                      slots |-> IF ok THEN ns ELSE 0,
                      bones |-> IF ok THEN nb ELSE 0]]
  /\ UNCHANGED << started, done, atlases, skeleton_data_assets, world,
                  commands, ready_events, ready_bus, spine_event_queue,
                  spine_event_bus, spine_textures, texture_bus, hist >>

(***************************************************************************)
(* The scheduler                                                           *)
(***************************************************************************)
\* The executor starts system s of schedule sched once every system ordered
\* before it has finished.
Start(sched, s) ==
  /\ s \in SystemsOf(sched)
  /\ s \notin started
  /\ \A a \in SystemsOf(sched) : PrecedesIn(sched, a, s) => a \in done
  /\ started' = started \cup {s}
  /\ UNCHANGED << done, atlases, skeletons, skeleton_data_assets, world,
                  commands, ready_events, ready_bus, spine_event_queue,
                  spine_event_bus, spine_textures, texture_bus, hist >>

StartSystem(s) == Start(Schedule, s)

Running(s) == s \in started /\ s \notin done

\* Every system of schedule sched has run; Events<T>::update at the end of
\* the frame drops the events of the frame (and the log forgets the listener
\* calls whose events are dropped with them).
FrameEnd(sched) ==
  /\ done = SystemsOf(sched)
  /\ started' = {}
  /\ done' = {}
  /\ ready_bus' = << >>
  /\ spine_event_bus' = << >>
  /\ texture_bus' = << >>
  /\ hist' = [hist EXCEPT !.spawn_eligible = {},
                          !.listener_calls =
                             SubSeq(@, Len(spine_event_bus) + 1, Len(@))]
  /\ UNCHANGED << atlases, skeletons, skeleton_data_assets, world, commands,
                  ready_events, spine_event_queue, spine_textures >>

EndFrame == FrameEnd(Schedule)

\* Number of events of the sequence that name entity e
CountFor(events, e) == Cardinality({i \in 1..Len(events) : events[i].entity = e})

(***************************************************************************)
(* spine_load                                                              *)
(***************************************************************************)
\* Mutant: a Loaded entry counts as Loading.
IsLoading_OrLoaded(a) == a.status \in {"Loading", "Loaded"}

\* Mutant: a Failed entry is taken up again like a Loading one.
IsLoading_RetryFailed(a) == a.status \in {"Loading", "Failed"}

\* matches!(status, SkeletonDataStatus::Loading)
IsLoading(a) == a.status = "Loading"

\* Mutant: a missing atlas fails the entry instead of leaving it for the
\* next tick.
LoadEntry_FailOnMissingAtlas(d) ==
  LET a == skeleton_data_assets[d] IN
  IF ~IsLoading(a) THEN [asset |-> a, parsed |-> FALSE]
  ELSE IF atlases[d].state # "Loaded"
       THEN [asset |-> [a EXCEPT !.status = "Failed"], parsed |-> FALSE]
  ELSE LET a1 == [a EXCEPT !.premultiplied_alpha = atlases[d].pma] IN
       IF ~skeletons[d].present THEN [asset |-> a1, parsed |-> FALSE]
       ELSE IF skeletons[d].ok
            THEN [asset |-> [a1 EXCEPT !.status = "Loaded",
                                       !.slots = skeletons[d].slots,
                                       !.bones = skeletons[d].bones],
                  parsed |-> TRUE]
            ELSE [asset |-> [a1 EXCEPT !.status = "Failed"], parsed |-> TRUE]

\* Mutant: missing skeleton bytes fail the entry instead of leaving it for
\* the next tick.
LoadEntry_FailOnMissingBytes(d) ==
  LET a == skeleton_data_assets[d] IN
  IF ~IsLoading(a) THEN [asset |-> a, parsed |-> FALSE]
  ELSE IF atlases[d].state # "Loaded" THEN [asset |-> a, parsed |-> FALSE]
  ELSE LET a1 == [a EXCEPT !.premultiplied_alpha = atlases[d].pma] IN
       IF ~skeletons[d].present
       THEN [asset |-> [a1 EXCEPT !.status = "Failed"], parsed |-> FALSE]
       ELSE IF skeletons[d].ok
            THEN [asset |-> [a1 EXCEPT !.status = "Loaded",
                                       !.slots = skeletons[d].slots,
                                       !.bones = skeletons[d].bones],
                  parsed |-> TRUE]
            ELSE [asset |-> [a1 EXCEPT !.status = "Failed"], parsed |-> TRUE]

\* One pass of the loop body over entry d: the entry afterwards, and whether
\* read_skeleton_data was called on its bytes.
LoadEntry(d) ==
  LET a == skeleton_data_assets[d] IN
  IF ~IsLoading(a) THEN [asset |-> a, parsed |-> FALSE]
  ELSE IF atlases[d].state # "Loaded" THEN [asset |-> a, parsed |-> FALSE]
  ELSE LET a1 == [a EXCEPT !.premultiplied_alpha = atlases[d].pma] IN
       IF ~skeletons[d].present THEN [asset |-> a1, parsed |-> FALSE]
       ELSE IF skeletons[d].ok
            THEN [asset |-> [a1 EXCEPT !.status = "Loaded",
                                       !.slots = skeletons[d].slots,
                                       !.bones = skeletons[d].bones],
                  parsed |-> TRUE]
            ELSE [asset |-> [a1 EXCEPT !.status = "Failed"], parsed |-> TRUE]

\* find_matching_atlas: the atlas with that address is in Assets<Atlas>
FindMatchingAtlas(address) ==
  \E d \in DOMAIN atlases : d = address /\ atlases[d].state = "Loaded"

\* SpineTextures::update, first loop: remember.pop() until empty
RECURSIVE DrainRemember(_, _)
DrainRemember(t, bus) ==
  IF t.remember = << >> THEN [textures |-> t, bus |-> bus]
  ELSE LET n == Len(t.remember)
           texture == t.remember[n]
           rest == [t EXCEPT !.remember = SubSeq(@, 1, n - 1)]
       IN IF FindMatchingAtlas(texture.atlas_address)
          THEN DrainRemember(
                 [rest EXCEPT !.handles = Append(@, texture.path)],
                 Append(bus, [kind |-> "Create", path |-> texture.path,
                              config |-> [premultiplied_alpha |-> texture.pma]]))
          ELSE DrainRemember(rest, bus)

\* handles.iter().position(|i| i.0 == texture_path); 0 when there is none
Position(handles, path) ==
  IF \E i \in 1..Len(handles) : handles[i] = path
  THEN CHOOSE i \in 1..Len(handles) :
         /\ handles[i] = path
         /\ \A j \in 1..(i - 1) : handles[j] # path
  ELSE 0

\* Mutant: a pending dispose without a live entry still sends its event.
RECURSIVE DrainForget_AlwaysSends(_, _)
DrainForget_AlwaysSends(t, bus) ==
  IF t.forget = << >> THEN [textures |-> t, bus |-> bus]
  ELSE LET n == Len(t.forget)
           texture_path == t.forget[n]
           rest == [t EXCEPT !.forget = SubSeq(@, 1, n - 1)]
           index == Position(t.handles, texture_path)
       IN DrainForget_AlwaysSends(
            [rest EXCEPT !.handles =
               IF index # 0
               THEN SubSeq(@, 1, index - 1) \o SubSeq(@, index + 1, Len(@))
               ELSE @],
            Append(bus, [kind |-> "Dispose", path |-> texture_path]))

\* SpineTextures::update, second loop: forget.pop() until empty
RECURSIVE DrainForget(_, _)
DrainForget(t, bus) ==
  IF t.forget = << >> THEN [textures |-> t, bus |-> bus]
  ELSE LET n == Len(t.forget)
           texture_path == t.forget[n]
           rest == [t EXCEPT !.forget = SubSeq(@, 1, n - 1)]
           index == Position(t.handles, texture_path)
       IN IF index # 0
          THEN DrainForget(
                 [rest EXCEPT !.handles =
                    SubSeq(@, 1, index - 1) \o SubSeq(@, index + 1, Len(@))],
                 Append(bus, [kind |-> "Dispose", path |-> texture_path]))
          ELSE DrainForget(rest, bus)

TexturesUpdate(t, bus) ==
  LET r == DrainRemember(t, bus) IN DrainForget(r.textures, r.bus)

spine_load ==
  /\ Running("spine_load")
  /\ done' = done \cup {"spine_load"}
  /\ LET loading == \E d \in Data : IsLoading(skeleton_data_assets[d])
         r == TexturesUpdate(spine_textures, texture_bus)
     IN /\ skeleton_data_assets' =
             IF loading THEN [d \in Data |-> LoadEntry(d).asset]
             ELSE skeleton_data_assets
        /\ spine_textures' = r.textures
        /\ texture_bus' = r.bus
        /\ hist' = [hist EXCEPT
                      !.iter_mut = loading,
                      !.parses =
                        [d \in Data |->
                           IF loading /\ LoadEntry(d).parsed /\ @[d] < 2
                           THEN @[d] + 1 ELSE @[d]],
                      !.texture_events =
                        @ \o SubSeq(r.bus, Len(texture_bus) + 1, Len(r.bus))]
  /\ UNCHANGED << started, atlases, skeletons, world, commands, ready_events,
                  ready_bus, spine_event_queue, spine_event_bus >>

(***************************************************************************)
(* spine_spawn                                                             *)
(***************************************************************************)
\* Mutant: the spawner flips the loader but queues no ready event.
SpawnOne_NoReadyEvent(st, e) ==
  LET w == st.world[e]
      a == skeleton_data_assets[w.skeleton]
      nb == IF w.with_children THEN a.bones ELSE 0
  IN IF w.loader # "Loading" THEN st
     ELSE IF a.status = "Loaded"
          THEN [ world |-> [st.world EXCEPT ![e].loader = "Ready"],
                 commands |-> Append(st.commands,
                                [entity |-> e, data |-> w.skeleton,
                                 slots |-> a.slots, bones |-> nb]),
                 ready_events |-> st.ready_events ]
          ELSE IF a.status = "Failed"
               THEN [st EXCEPT !.world[e].loader = "Failed"]
               ELSE st

\* Mutant: the spawner builds the skeleton but leaves the loader Loading.
SpawnOne_KeepsLoading(st, e) ==
  LET w == st.world[e]
      a == skeleton_data_assets[w.skeleton]
      nb == IF w.with_children THEN a.bones ELSE 0
  IN IF w.loader # "Loading" THEN st
     ELSE IF a.status = "Loaded"
          THEN [ world |-> st.world,
                 commands |-> Append(st.commands,
                                [entity |-> e, data |-> w.skeleton,
                                 slots |-> a.slots, bones |-> nb]),
                 ready_events |-> Append(st.ready_events,
                                    [entity |-> e, bones |-> nb]) ]
          ELSE IF a.status = "Failed"
               THEN [st EXCEPT !.world[e].loader = "Failed"]
               ELSE st

\* Mutant: a Failed skeleton-data is treated like a Loading one.
SpawnOne_IgnoresFailed(st, e) ==
  LET w == st.world[e]
      a == skeleton_data_assets[w.skeleton]
      nb == IF w.with_children THEN a.bones ELSE 0
  IN IF w.loader # "Loading" THEN st
     ELSE IF a.status = "Loaded"
          THEN [ world |-> [st.world EXCEPT ![e].loader = "Ready"],
                 commands |-> Append(st.commands,
                                [entity |-> e, data |-> w.skeleton,
                                 slots |-> a.slots, bones |-> nb]),
                 ready_events |-> Append(st.ready_events,
                                    [entity |-> e, bones |-> nb]) ]
          ELSE st

\* The loop body for root entity e; st carries the world (loader tags), the
\* command buffer and the SpineReadyEvents resource.
SpawnOne(st, e) ==
  LET w == st.world[e]
      a == skeleton_data_assets[w.skeleton]
      nb == IF w.with_children THEN a.bones ELSE 0
  IN IF w.loader # "Loading" THEN st
     ELSE IF a.status = "Loaded"
          THEN [ world |-> [st.world EXCEPT ![e].loader = "Ready"],
                 commands |-> Append(st.commands,
                                [entity |-> e, data |-> w.skeleton,
                                 slots |-> a.slots, bones |-> nb]),
                 ready_events |-> Append(st.ready_events,
                                    [entity |-> e, bones |-> nb]) ]
          ELSE IF a.status = "Failed"
               THEN [st EXCEPT !.world[e].loader = "Failed"]
               ELSE st

RECURSIVE SpawnAll(_, _)
SpawnAll(st, e) ==
  IF e > MaxEnt THEN st ELSE SpawnAll(SpawnOne(st, e), e + 1)

spine_spawn ==
  /\ Running("spine_spawn")
  /\ done' = done \cup {"spine_spawn"}
  /\ LET st == SpawnAll([world |-> world, commands |-> commands,
                         ready_events |-> ready_events], 1)
     IN /\ world' = st.world
        /\ commands' = st.commands
        /\ ready_events' = st.ready_events
  /\ hist' = [hist EXCEPT !.spawn_eligible =
                { e \in Ent : /\ world[e].loader = "Loading"
                              /\ skeleton_data_assets[world[e].skeleton].status
                                   = "Loaded" }]
  /\ UNCHANGED << started, atlases, skeletons, skeleton_data_assets, ready_bus,
                  spine_event_queue, spine_event_bus, spine_textures,
                  texture_bus >>

(***************************************************************************)
(* apply_deferred (SpineSystem::SpawnFlush)                                *)
(***************************************************************************)
\* Mutant: the mesh loop runs once more than there are slots.
ApplyCommand_ExtraMesh(w, c) ==
  [w EXCEPT ![c.entity] =
     [@ EXCEPT !.containers = @ + 1,
               !.meshes = @ \o [k \in 1..(c.slots + 1) |-> "Empty"],
               !.bones = @ + c.bones,
               !.transforms = @ \o [k \in 1..c.bones |-> 0],
               !.pose = [k \in 1..skeleton_data_assets[c.data].bones |->
                           [x |-> 0, ax |-> 0]],
               !.spine = c.data]]

\* The translation of a bone in the setup pose (set_to_setup_pose), local
\* and applied.
SetupPose == [x |-> 0, ax |-> 0]

\* with_children: one meshes container holding one Empty mesh per slot, the
\* bone entities (spawn_bones: their Transform is the bone's applied pose),
\* then insert(Spine(controller)), the controller being in the setup pose
ApplyCommand(w, c) ==
  [w EXCEPT ![c.entity] =
     [@ EXCEPT !.containers = @ + 1,
               !.meshes = @ \o [k \in 1..c.slots |-> "Empty"],
               !.bones = @ + c.bones,
               !.transforms = @ \o [k \in 1..c.bones |-> SetupPose.ax],
               !.pose = [k \in 1..skeleton_data_assets[c.data].bones |->
                           SetupPose],
               !.spine = c.data]]

RECURSIVE ApplyCommands(_, _)
ApplyCommands(w, cs) ==
  IF cs = << >> THEN w ELSE ApplyCommands(ApplyCommand(w, Head(cs)), Tail(cs))

apply_deferred ==
  /\ Running("apply_deferred")
  /\ done' = done \cup {"apply_deferred"}
  /\ world' = ApplyCommands(world, commands)
  /\ commands' = << >>
  /\ UNCHANGED << started, atlases, skeletons, skeleton_data_assets,
                  ready_events, ready_bus, spine_event_queue, spine_event_bus,
                  spine_textures, texture_bus, hist >>

(***************************************************************************)
(* spine_ready and the OnReady user systems                                *)
(***************************************************************************)
\* Mutant: the events are sent from a clone and stay in the resource.
ReadyTake_Clones(events) == [send |-> events, keep |-> events]

\* take(&mut ready_events.0): the events to send, and what the resource keeps
ReadyTake(events) == [send |-> events, keep |-> << >>]

spine_ready ==
  /\ Running("spine_ready")
  /\ done' = done \cup {"spine_ready"}
  /\ LET t == ReadyTake(ready_events)
     IN /\ ready_bus' = ready_bus \o t.send
        /\ ready_events' = t.keep
        /\ hist' = [hist EXCEPT !.ready_sent =
                      [e \in Ent |-> IF @[e] + CountFor(t.send, e) > 2 THEN 2
                                      ELSE @[e] + CountFor(t.send, e)]]
  /\ UNCHANGED << started, atlases, skeletons, skeleton_data_assets, world,
                  commands, spine_event_queue, spine_event_bus, spine_textures,
                  texture_bus >>

\* A user system in SpineSet::OnReady that reads the SpineReadyEvents of the
\* frame and queries the Spine component of each event's entity.
on_ready ==
  /\ Running("on_ready")
  /\ done' = done \cup {"on_ready"}
  /\ hist' = [hist EXCEPT !.on_ready_query =
                [e \in Ent |->
                   IF CountFor(ready_bus, e) = 0 THEN @[e]
                   ELSE IF world[e].spine # 0 THEN "ok" ELSE "missing"]]
  /\ UNCHANGED << started, atlases, skeletons, skeleton_data_assets, world,
                  commands, ready_events, ready_bus, spine_event_queue,
                  spine_event_bus, spine_textures, texture_bus >>

(***************************************************************************)
(* spine_update_animation and the OnEvent user systems                     *)
(***************************************************************************)
\* The AnimationEvent values the runtime calls a listener with: the start of
\* an animation, and a keyed event of an animation.
AnimationEvents ==
  { [kind |-> "Start", name |-> "walk"], [kind |-> "Event", name |-> "footstep"] }

\* What the listener of one controller is called with during one update.
ListenerCalls == {<< >>} \cup { << a >> : a \in AnimationEvents }

\* Mutant: the listener tags the event with the first root entity instead of
\* the one its controller was built for.
Listener_WrongEntity(spine_entity, animation_event) ==
  [kind |-> animation_event.kind, entity |-> 1, name |-> animation_event.name]

\* Mutant: the listener forwards a keyed event under the animation-start kind.
Listener_WrongKind(spine_entity, animation_event) ==
  [kind |-> "Start", entity |-> spine_entity, name |-> animation_event.name]

\* The listener closure installed by spine_spawn: the SpineEvent it pushes for
\* one AnimationEvent, tagged with the root entity it captured.
Listener(spine_entity, animation_event) ==
  [kind |-> animation_event.kind, entity |-> spine_entity,
   name |-> animation_event.name]

\* The queue after the listeners of the controllers e, e + 1, .. were called
\* with fired[e], fired[e + 1], ..: events.push_back(..) per call
RECURSIVE Pushes(_, _)
Pushes(fired, e) ==
  IF e > MaxEnt THEN << >>
  ELSE [i \in 1..Len(fired[e]) |-> Listener(e, fired[e][i])]
       \o Pushes(fired, e + 1)

\* The same listener calls as they are logged: which controller's listener
\* was called with which AnimationEvent.
RECURSIVE Calls(_, _)
Calls(fired, e) ==
  IF e > MaxEnt THEN << >>
  ELSE [i \in 1..Len(fired[e]) |-> [controller |-> e, event |-> fired[e][i]]]
       \o Calls(fired, e + 1)

\* Mutant: the drain pops from the back of the queue.
RECURSIVE DrainEvents_PopBack(_, _)
DrainEvents_PopBack(events, bus) ==
  IF events = << >> THEN [queue |-> events, bus |-> bus]
  ELSE DrainEvents_PopBack(SubSeq(events, 1, Len(events) - 1),
                           Append(bus, events[Len(events)]))

\* Mutant: the drain sends one event per tick and leaves the rest queued.
DrainEvents_OnePerTick(events, bus) ==
  IF events = << >> THEN [queue |-> events, bus |-> bus]
  ELSE [queue |-> Tail(events), bus |-> Append(bus, Head(events))]

\* The translation the animation of skeleton-data d keys for a bone.
KeyedPose(d) == d

\* skeleton.update_world_transform: the applied translation of a bone whose
\* local translation is x, a constraint keeping it within reach.
Constrain(x) == IF x > MaxReach THEN MaxReach ELSE x

\* spine.update(delta, Physics::Update) on the controller of w: the animation
\* is applied to the bones and the world transforms are recomputed.
ControllerUpdate(w) ==
  [w EXCEPT !.pose = [k \in 1..Len(@) |->
                        [x |-> KeyedPose(w.spine),
                         ax |-> Constrain(KeyedPose(w.spine))]]]

\* while let Some(event) = events.pop_front() { spine_events.send(event) }
RECURSIVE DrainEvents(_, _)
DrainEvents(events, bus) ==
  IF events = << >> THEN [queue |-> events, bus |-> bus]
  ELSE DrainEvents(Tail(events), Append(bus, Head(events)))

spine_update_animation ==
  /\ Running("spine_update_animation")
  /\ done' = done \cup {"spine_update_animation"}
  /\ \E fired \in [Ent -> ListenerCalls] :
        /\ \A e \in Ent : world[e].spine = 0 => fired[e] = << >>
        /\ LET r == DrainEvents(spine_event_queue \o Pushes(fired, 1),
                                spine_event_bus)
           IN /\ spine_event_bus' = r.bus
              /\ spine_event_queue' = r.queue
        /\ hist' = [hist EXCEPT
                      !.updated = [e \in Ent |-> @[e] \/ world[e].spine # 0],
                      !.listener_calls = @ \o Calls(fired, 1)]
  /\ world' = [e \in Ent |-> IF world[e].spine = 0 THEN world[e]
                              ELSE ControllerUpdate(world[e])]
  /\ UNCHANGED << started, atlases, skeletons, skeleton_data_assets,
                  commands, ready_events, ready_bus, spine_textures, texture_bus >>

\* A user system in SpineSet::OnEvent reading the SpineEvents of the frame.
on_event ==
  /\ Running("on_event")
  /\ done' = done \cup {"on_event"}
  /\ UNCHANGED << started, atlases, skeletons, skeleton_data_assets, world,
                  commands, ready_events, ready_bus, spine_event_queue,
                  spine_event_bus, spine_textures, texture_bus, hist >>

\* A user system that changes the animation of some controllers
\* (animation_state.set_animation_by_name): the runtime calls the listener of
\* each of them with the start of the new animation before the call returns.
set_animation(s) ==
  /\ Running(s)
  /\ done' = done \cup {s}
  /\ \E fired \in [Ent -> {<< >>, << [kind |-> "Start", name |-> "walk"] >>}] :
        /\ \A e \in Ent : world[e].spine = 0 => fired[e] = << >>
        /\ spine_event_queue' = spine_event_queue \o Pushes(fired, 1)
        /\ hist' = [hist EXCEPT !.listener_calls = @ \o Calls(fired, 1)]
  /\ UNCHANGED << started, atlases, skeletons, skeleton_data_assets, world,
                  commands, ready_events, ready_bus, spine_event_bus,
                  spine_textures, texture_bus >>

(***************************************************************************)
(* The bone-sync barrier (entity_sync.rs)                                  *)
(***************************************************************************)
\* Mutant: the skeleton query has no With<S> filter.
Tagged_NoFilter(w, T) == w.spine # 0

\* spine_query.get(bone.spine_entity) is Ok: the root entity has a Spine
\* component and carries the sync tag (Query<&Spine, With<S>>)
Tagged(w, T) == w.spine # 0 /\ T \in w.sync

\* spine_sync_entities::<T> on the bone entities of root entity w: the local
\* translation of each bone goes to its bone entity
SyncEntities(w, T) ==
  IF ~Tagged(w, T) THEN w
  ELSE [w EXCEPT !.transforms = [k \in 1..Len(@) |-> w.pose[k].x]]

\* Mutant: phase 3 recomputes the world transforms without first copying
\* the bone entities' translations into the bones.
SyncBones_NoCopy(w, T) ==
  IF ~Tagged(w, T) THEN w
  ELSE [w EXCEPT !.pose = [k \in 1..Len(@) |->
                             [x |-> @[k].x, ax |-> Constrain(@[k].x)]]]

\* spine_sync_bones::<T>: the translation of each bone entity goes to its
\* bone (set_x), then skeleton.update_world_transform()
SyncBones(w, T) ==
  IF ~Tagged(w, T) THEN w
  ELSE [w EXCEPT !.pose =
          [k \in 1..Len(@) |->
             LET x == IF k <= Len(w.transforms) THEN w.transforms[k] ELSE @[k].x
             IN [x |-> x, ax |-> Constrain(x)]]]

\* Mutant: phase 4 copies the local instead of the applied translation.
SyncEntitiesApplied_Local(w, T) ==
  IF ~Tagged(w, T) THEN w
  ELSE [w EXCEPT !.transforms = [k \in 1..Len(@) |-> w.pose[k].x]]

\* spine_sync_entities_applied::<T>: the applied translation of each bone
\* goes to its bone entity
SyncEntitiesApplied(w, T) ==
  IF ~Tagged(w, T) THEN w
  ELSE [w EXCEPT !.transforms = [k \in 1..Len(@) |-> w.pose[k].ax]]

spine_sync_entities(T) ==
  /\ Running(SystemOf("spine_sync_entities", T))
  /\ done' = done \cup {SystemOf("spine_sync_entities", T)}
  /\ world' = [e \in Ent |-> SyncEntities(world[e], T)]
  /\ UNCHANGED << started, atlases, skeletons, skeleton_data_assets, commands,
                  ready_events, ready_bus, spine_event_queue, spine_event_bus,
                  spine_textures, texture_bus, hist >>

spine_sync_bones(T) ==
  /\ Running(SystemOf("spine_sync_bones", T))
  /\ done' = done \cup {SystemOf("spine_sync_bones", T)}
  /\ world' = [e \in Ent |-> SyncBones(world[e], T)]
  /\ UNCHANGED << started, atlases, skeletons, skeleton_data_assets, commands,
                  ready_events, ready_bus, spine_event_queue, spine_event_bus,
                  spine_textures, texture_bus, hist >>

spine_sync_entities_applied(T) ==
  /\ Running(SystemOf("spine_sync_entities_applied", T))
  /\ done' = done \cup {SystemOf("spine_sync_entities_applied", T)}
  /\ world' = [e \in Ent |-> SyncEntitiesApplied(world[e], T)]
  /\ UNCHANGED << started, atlases, skeletons, skeleton_data_assets, commands,
                  ready_events, ready_bus, spine_event_queue, spine_event_bus,
                  spine_textures, texture_bus, hist >>

\* The translations a user system writes to a bone entity.
Translations == 0..MaxTranslation

\* A user system in SpineSynchronizerSet::<T>::DuringSync, like ik of
\* examples/ik.rs: it writes the translation of one bone entity, or of none.
during_sync(T) ==
  /\ Running(SystemOf("during_sync", T))
  /\ done' = done \cup {SystemOf("during_sync", T)}
  /\ \/ UNCHANGED world
     \/ \E e \in Ent, v \in Translations :
           \E k \in 1..Len(world[e].transforms) :
              world' = [world EXCEPT ![e].transforms[k] = v]
  /\ UNCHANGED << started, atlases, skeletons, skeleton_data_assets, commands,
                  ready_events, ready_bus, spine_event_queue, spine_event_bus,
                  spine_textures, texture_bus, hist >>

\* A user system s that only reads: before_sync and after_sync of the
\* SpineSyncSet doc example.
user_system(s) ==
  /\ Running(s)
  /\ done' = done \cup {s}
  /\ UNCHANGED << started, atlases, skeletons, skeleton_data_assets, world,
                  commands, ready_events, ready_bus, spine_event_queue,
                  spine_event_bus, spine_textures, texture_bus, hist >>

(***************************************************************************)
(* spine_update_meshes                                                     *)
(***************************************************************************)
\* The renderables a controller returns: for each, whether it has a renderer
\* object (texture).
RenderableLists == UNION { [1..n -> BOOLEAN] : n \in 0..MaxSlots }

\* The mesh children of root entity w after the builder consumed renderables r
BuildMeshes(w, r) ==
  IF w.spine = 0 \/ w.containers = 0 \/ w.drawer = "None" THEN w.meshes
  ELSE [k \in 1..Len(w.meshes) |->
          IF k <= Len(r) /\ r[k] THEN "Renderable" ELSE "Empty"]

spine_update_meshes ==
  /\ Running("spine_update_meshes")
  /\ done' = done \cup {"spine_update_meshes"}
  /\ \E r \in [Ent -> RenderableLists] :
        /\ \A e \in Ent :
              IF world[e].spine = 0 \/ world[e].drawer = "None"
              THEN r[e] = << >>
              ELSE Len(r[e]) <= skeleton_data_assets[world[e].spine].slots
        /\ world' = [e \in Ent |-> [world[e] EXCEPT !.meshes = BuildMeshes(world[e], r[e])]]
  /\ UNCHANGED << started, atlases, skeletons, skeleton_data_assets, commands,
                  ready_events, ready_bus, spine_event_queue, spine_event_bus,
                  spine_textures, texture_bus, hist >>

(***************************************************************************)
(* Specification                                                           *)
(***************************************************************************)
\* The loader and drawer settings the application spawns bundles with.
Bundles ==
  { [with_children |-> TRUE, drawer |-> "Combined"],
    [with_children |-> FALSE, drawer |-> "Separated"],
    [with_children |-> TRUE, drawer |-> "None"] }

Application ==
  \/ \E d \in Data : AddSkeletonData(d)
  \/ \E e \in Ent, d \in Data, b \in Bundles :
        SpawnBundle(e, d, b.with_children, b.drawer)

AssetServer ==
  \/ \E d \in Data, pma \in BOOLEAN : AtlasLoaded(d, pma)
  \/ \E d \in Data : AtlasFailed(d)
  \/ \E d \in Data, ok \in BOOLEAN, ns \in 0..MaxSlots, nb \in 1..MaxBones :
        SkeletonBytesLoaded(d, ok, ns, nb)

Frame ==
  \/ \E s \in Systems : StartSystem(s)
  \/ spine_load
  \/ spine_spawn
  \/ apply_deferred
  \/ spine_ready
  \/ on_ready
  \/ spine_update_animation
  \/ on_event
  \/ spine_update_meshes
  \/ EndFrame

Next == Application \/ AssetServer \/ Frame

Spec == Init /\ [][Next]_vars

\* App::update is called again and again and the executor runs every system
\* of the schedule whose predecessors have finished.
LiveSpec == Spec /\ WF_vars(Frame)

(***************************************************************************)
(* The animation-event bridge: the part of the frame from the OnReady user *)
(* systems to the mesh builder, run over skeletons that are Ready, with    *)
(* user systems that change animations.                                    *)
(***************************************************************************)
\* set_animation is a user system in SpineSet::OnReady; crossfades is the user
\* system of examples/crossfades.rs, ordered after the tick and before the
\* mesh builder; ui is the user system of examples/viewer.rs, added without
\* any ordering.
EventUserSystems ==
  { [sys |-> "set_animation", in |-> {"OnReady"}, after |-> {}, before |-> {}],
    [sys |-> "crossfades", in |-> {}, after |-> {Update},
     before |-> {Render}],
    [sys |-> "ui", in |-> {}, after |-> {}, before |-> {}] }

EventSchedule ==
  { UpdateAnimationSystem, UpdateMeshesSystem } \cup EventUserSystems
    \cup { c \in UserSystems : c.sys = "on_event" }

\* A root entity as spine_spawn and the flush leave it for a skeleton-data
\* without slots: Ready, with its controller, one meshes container and the
\* bone entities, after the first tick.
ReadyEntity(d, nb) ==
  [NoEntity EXCEPT !.loader = "Ready", !.with_children = TRUE, !.skeleton = d,
                   !.drawer = "None", !.spine = d, !.containers = 1,
                   !.bones = nb,
                   !.transforms = [k \in 1..nb |-> SetupPose.ax],
                   !.pose = [k \in 1..nb |->
                               [x |-> KeyedPose(d), ax |-> Constrain(KeyedPose(d))]]]

\* Between two frames, after the first n root entities have become Ready;
\* tags[e] are the sync tags the application has put on root entity e.
ReadyWorld(n, tags) ==
  /\ started = {}
  /\ done = {}
  /\ atlases = [d \in Data |-> [state |-> "Loaded", pma |-> FALSE]]
  /\ skeletons = [d \in Data |-> [present |-> TRUE, ok |-> TRUE,
                                  slots |-> 0, bones |-> 1]]
  /\ skeleton_data_assets =
       [d \in Data |-> [status |-> "Loaded", premultiplied_alpha |-> FALSE,
                        slots |-> 0, bones |-> 1]]
  /\ world = [e \in Ent |-> IF e <= n
                             THEN [ReadyEntity(1, 1) EXCEPT !.sync = tags[e]]
                             ELSE NoEntity]
  /\ commands = << >>
  /\ ready_events = << >>
  /\ ready_bus = << >>
  /\ spine_event_queue = << >>
  /\ spine_event_bus = << >>
  /\ spine_textures = [handles |-> [d \in Data |-> TexturePath(d)],
                       remember |-> << >>, forget |-> << >>]
  /\ texture_bus = << >>
  /\ hist = [ iter_mut |-> FALSE,
              ready_sent |-> [e \in Ent |-> IF e <= n THEN 1 ELSE 0],
              updated |-> [e \in Ent |-> e <= n],
              on_ready_query |-> [e \in Ent |-> IF e <= n THEN "ok" ELSE "none"],
              parses |-> [d \in Data |-> 1],
              spawn_eligible |-> {},
              listener_calls |-> << >>,
              texture_events |->
                [d \in Data |->
                   [kind |-> "Create", path |-> TexturePath(d),
                    config |-> [premultiplied_alpha |-> atlases[d].pma]]] ]

EventInit == \E n \in 1..MaxEnt : ReadyWorld(n, [e \in Ent |-> {}])

EventNext ==
  \/ \E s \in SystemsOf(EventSchedule) : Start(EventSchedule, s)
  \/ set_animation("set_animation")
  \/ spine_update_animation
  \/ on_event
  \/ set_animation("crossfades")
  \/ set_animation("ui")
  \/ spine_update_meshes
  \/ FrameEnd(EventSchedule)

EventSpec == EventInit /\ [][EventNext]_vars

(***************************************************************************)
(* The bone-sync barrier: the part of the frame from the animation tick to *)
(* the mesh builder, run over skeletons that are Ready, some of them       *)
(* carrying sync tags.                                                     *)
(***************************************************************************)
\* Mutant: MySpineSync is registered like the first tag, after the tick,
\* instead of chained after SpineSync.
SyncSchedule_Unchained ==
  { UpdateAnimationSystem, UpdateMeshesSystem }
    \cup { c \in UserSystems : c.sys = "on_event" }
    \cup SpineSynchronizerPlugin("SpineSync", Update)
    \cup SpineSynchronizerPlugin("MySpineSync", Update)
    \cup UNION { SyncUserSystems(T) : T \in SyncTags }

SyncSchedule ==
  { UpdateAnimationSystem, UpdateMeshesSystem }
    \cup { c \in UserSystems : c.sys = "on_event" }
    \cup SpineSynchronizerPlugin("SpineSync", Update)
    \cup SpineSynchronizerPlugin("MySpineSync", SetOf("AfterSync", "SpineSync"))
    \cup UNION { SyncUserSystems(T) : T \in SyncTags }

SyncInit ==
  \E n \in 1..MaxSynced : \E tags \in [Ent -> SUBSET SyncTags] :
     /\ \A e \in Ent : e > n => tags[e] = {}
     /\ ReadyWorld(n, tags)

SyncNext ==
  \/ \E s \in SystemsOf(SyncSchedule) : Start(SyncSchedule, s)
  \/ spine_update_animation
  \/ on_event
  \/ \E T \in SyncTags : user_system(SystemOf("before_sync", T))
  \/ \E T \in SyncTags : spine_sync_entities(T)
  \/ \E T \in SyncTags : during_sync(T)
  \/ \E T \in SyncTags : spine_sync_bones(T)
  \/ \E T \in SyncTags : spine_sync_entities_applied(T)
  \/ \E T \in SyncTags : user_system(SystemOf("after_sync", T))
  \/ spine_update_meshes
  \/ FrameEnd(SyncSchedule)

SyncSpec == SyncInit /\ [][SyncNext]_vars

(***************************************************************************)
(* The texture bridge alone: atlases are parsed by the asset loader's      *)
(* task, registered in and removed from Assets<Atlas> by the asset server, *)
(* and destroyed when their last owner drops them, at any point of the     *)
(* frame; spine_load drains the bridge once per frame.                     *)
(***************************************************************************)
AtlasIds == 1..MaxAtlases

\* The texture paths named by the pages of the atlas files
PagePaths == { "shared.png", "own.png" }

\* set_create_texture_cb, run by rusty_spine::Atlas::new inside
\* AtlasLoader::load: the page is remembered with the address of its atlas,
\* and its renderer object keeps the path.  The atlas is not yet in
\* Assets<Atlas>.
create_texture_cb(a, path, pma) ==
  /\ atlases[a].state = "Pending"
  /\ atlases' = [atlases EXCEPT ![a] =
                   [state |-> "Parsed", pma |-> pma, path |-> path]]
  /\ spine_textures' =
       [spine_textures EXCEPT !.remember =
          Append(@, [path |-> path, atlas_address |-> a, pma |-> pma])]
  /\ UNCHANGED << started, done, skeletons, skeleton_data_assets, world,
                  commands, ready_events, ready_bus, spine_event_queue,
                  spine_event_bus, texture_bus, hist >>

\* load_context.set_default_asset: the asset server stores the loaded atlas
\* in Assets<Atlas>
AtlasRegistered(a) ==
  /\ atlases[a].state = "Parsed"
  /\ atlases' = [atlases EXCEPT ![a].state = "Loaded"]
  /\ UNCHANGED << started, done, skeletons, skeleton_data_assets, world,
                  commands, ready_events, ready_bus, spine_event_queue,
                  spine_event_bus, spine_textures, texture_bus, hist >>

\* The atlas leaves Assets<Atlas>; its Arc<rusty_spine::Atlas> may have
\* other owners
AtlasRemoved(a) ==
  /\ atlases[a].state = "Loaded"
  /\ atlases' = [atlases EXCEPT ![a].state = "Removed"]
  /\ UNCHANGED << started, done, skeletons, skeleton_data_assets, world,
                  commands, ready_events, ready_bus, spine_event_queue,
                  spine_event_bus, spine_textures, texture_bus, hist >>

\* set_dispose_texture_cb, run when the last owner drops the atlas: the path
\* kept by the page's renderer object is pushed to forget
dispose_texture_cb(a) ==
  /\ atlases[a].state \in { "Parsed", "Removed" }
  /\ atlases' = [atlases EXCEPT ![a].state = "Destroyed"]
  /\ spine_textures' =
       [spine_textures EXCEPT !.forget = Append(@, atlases[a].path)]
  /\ UNCHANGED << started, done, skeletons, skeleton_data_assets, world,
                  commands, ready_events, ready_bus, spine_event_queue,
                  spine_event_bus, texture_bus, hist >>

TextureSchedule == { LoadSystem }

\* No atlas file has been parsed yet; the application has added nothing else.
\* A slice keeps more resources of the texture path in spine_textures
\* (resources) and more of the log (log).
TextureWorld(resources, log) ==
  /\ started = {}
  /\ done = {}
  /\ atlases = [a \in AtlasIds |->
                  [state |-> "Pending", pma |-> FALSE, path |-> ""]]
  /\ skeletons = [d \in Data |-> [present |-> FALSE, ok |-> FALSE,
                                  slots |-> 0, bones |-> 0]]
  /\ skeleton_data_assets = [d \in Data |-> NoAsset]
  /\ world = [e \in Ent |-> NoEntity]
  /\ commands = << >>
  /\ ready_events = << >>
  /\ ready_bus = << >>
  /\ spine_event_queue = << >>
  /\ spine_event_bus = << >>
  /\ spine_textures =
       resources @@ [handles |-> << >>, remember |-> << >>, forget |-> << >>]
  /\ texture_bus = << >>
  /\ hist = log @@
            [ iter_mut |-> FALSE,
              ready_sent |-> [e \in Ent |-> 0],
              updated |-> [e \in Ent |-> FALSE],
              on_ready_query |-> [e \in Ent |-> "none"],
              parses |-> [d \in Data |-> 0],
              spawn_eligible |-> {},
              listener_calls |-> << >>,
              texture_events |-> << >> ]

TextureInit == TextureWorld(<< >>, << >>)

TextureNext ==
  \/ \E s \in SystemsOf(TextureSchedule) : Start(TextureSchedule, s)
  \/ spine_load
  \/ FrameEnd(TextureSchedule)
  \/ \E a \in AtlasIds, path \in PagePaths, pma \in BOOLEAN :
        create_texture_cb(a, path, pma)
  \/ \E a \in AtlasIds : AtlasRegistered(a)
  \/ \E a \in AtlasIds : AtlasRemoved(a)
  \/ \E a \in AtlasIds : dispose_texture_cb(a)

TextureSpec == TextureInit /\ [][TextureNext]_vars

(***************************************************************************)
(* The loader stage with the texture bridge: the application adds          *)
(* skeleton-data assets and the asset server stores skeleton bytes while   *)
(* atlases come and go.  The log tells whether the last run of spine_load  *)
(* called iter_mut on Assets<SkeletonData> (iter_mut).                     *)
(***************************************************************************)
LoaderNext ==
  \/ TextureNext
  \/ \E d \in Data : AddSkeletonData(d)
  \/ \E d \in Data, ok \in BOOLEAN, ns \in 0..MaxSlots :
        SkeletonBytesLoaded(d, ok, ns, MaxBones)

LoaderSpec == TextureInit /\ [][LoaderNext]_vars

(***************************************************************************)
(* The texture post-processor: adjust_spine_textures runs in PostUpdate,   *)
(* after the Update schedule, on the create events of the frame.  The      *)
(* slice keeps Local<FixSpineTextures> (fix) and Assets<Image> (images)    *)
(* with the bridge's lists in spine_textures; the handle of an image is    *)
(* its path.  An image records how many times its pixel data went through  *)
(* the premultiplied-alpha conversion; an entry of fix carries the position*)
(* of its event in the log of sent events, and the log keeps the positions *)
(* of the events applied (adjusted).                                       *)
(***************************************************************************)
NoImage == [present |-> FALSE, sampler |-> "Default", converted |-> 0]

\* The asset server stores in Assets<Image> the image asset_server.load was
\* called for by the drain that sent a create event.
ImageLoaded(path) ==
  /\ ~spine_textures.images[path].present
  /\ \E i \in 1..Len(hist.texture_events) :
        /\ hist.texture_events[i].kind = "Create"
        /\ hist.texture_events[i].path = path
  /\ spine_textures' = [spine_textures EXCEPT !.images[path].present = TRUE]
  /\ UNCHANGED << started, done, atlases, skeletons, skeleton_data_assets,
                  world, commands, ready_events, ready_bus, spine_event_queue,
                  spine_event_bus, texture_bus, hist >>

\* spine_texture_create_events.read(): the entries pushed for the create
\* events of the frame
ReadCreateEvents ==
  LET first == Len(hist.texture_events) - Len(texture_bus)
      RECURSIVE Read(_)
      Read(i) ==
        IF i > Len(texture_bus) THEN << >>
        ELSE IF texture_bus[i].kind = "Create"
             THEN << [handle |-> texture_bus[i].path,
                      config |-> texture_bus[i].config,
                      event |-> first + i] >> \o Read(i + 1)
             ELSE Read(i + 1)
  IN Read(1)

\* The body of the loop for an image that is present: the sampler is
\* installed and, for a premultiplied texture, every pixel is converted.
AdjustImage(image, config) ==
  [image EXCEPT !.sampler = "Descriptor",
                !.converted = IF config.premultiplied_alpha THEN @ + 1 ELSE @]

\* Mutant: an applied entry is not removed from the list.
RECURSIVE AdjustHandles_KeepsApplied(_, _)
AdjustHandles_KeepsApplied(st, handles) ==
  IF handles = << >> THEN st
  ELSE LET entry == Head(handles) IN
       IF st.images[entry.handle].present
       THEN AdjustHandles_KeepsApplied(
              [st EXCEPT !.images[entry.handle] = AdjustImage(@, entry.config),
                         !.adjusted = Append(@, entry.event),
                         !.handles = Append(@, entry)],
              Tail(handles))
       ELSE AdjustHandles_KeepsApplied(
              [st EXCEPT !.handles = Append(@, entry)], Tail(handles))

\* The loop over local.handles and the removal of removed_handles: the
\* images, the entries that stay, and the events applied.
RECURSIVE AdjustHandles(_, _)
AdjustHandles(st, handles) ==
  IF handles = << >> THEN st
  ELSE LET entry == Head(handles) IN
       IF st.images[entry.handle].present
       THEN AdjustHandles(
              [st EXCEPT !.images[entry.handle] = AdjustImage(@, entry.config),
                         !.adjusted = Append(@, entry.event)],
              Tail(handles))
       ELSE AdjustHandles(
              [st EXCEPT !.handles = Append(@, entry)], Tail(handles))

\* add_systems(PostUpdate, adjust_spine_textures): PostUpdate runs when the
\* Update schedule has run.
AdjustSystem ==
  [sys |-> "adjust_spine_textures", in |-> {"PostUpdate"},
   after |-> {"Load"}, before |-> {}]

adjust_spine_textures ==
  /\ Running("adjust_spine_textures")
  /\ done' = done \cup {"adjust_spine_textures"}
  /\ LET r == AdjustHandles([images |-> spine_textures.images,
                             handles |-> << >>,
                             adjusted |-> hist.adjusted],
                            spine_textures.fix \o ReadCreateEvents)
     IN /\ spine_textures' = [spine_textures EXCEPT !.images = r.images,
                                                    !.fix = r.handles]
        /\ hist' = [hist EXCEPT !.adjusted = r.adjusted]
  /\ UNCHANGED << started, atlases, skeletons, skeleton_data_assets, world,
                  commands, ready_events, ready_bus, spine_event_queue,
                  spine_event_bus, texture_bus >>

AdjustSchedule == { LoadSystem, AdjustSystem }

\* No atlas file has been parsed, no image loaded, no entry pending.
AdjustInit ==
  TextureWorld([fix |-> << >>, images |-> [path \in PagePaths |-> NoImage]],
               [adjusted |-> << >>])

AdjustNext ==
  \/ \E s \in SystemsOf(AdjustSchedule) : Start(AdjustSchedule, s)
  \/ spine_load
  \/ adjust_spine_textures
  \/ FrameEnd(AdjustSchedule)
  \/ \E a \in AtlasIds, path \in PagePaths, pma \in BOOLEAN :
        create_texture_cb(a, path, pma)
  \/ \E a \in AtlasIds : AtlasRegistered(a)
  \/ \E a \in AtlasIds : AtlasRemoved(a)
  \/ \E a \in AtlasIds : dispose_texture_cb(a)
  \/ \E path \in PagePaths : ImageLoaded(path)

AdjustSpec == AdjustInit /\ [][AdjustNext]_vars

(***************************************************************************)
(* The bone entities of a skeleton: spine_spawn with the bones of the      *)
(* skeleton spelled out.  A skeleton's bones are listed parent before      *)
(* child, bone 1 being the root; each has a name and the index of its      *)
(* parent (0 for the root).  Entity [spine |-> e, index |-> 0] is root     *)
(* entity e, [spine |-> e, index |-> i] the i-th bone entity spawned for   *)
(* it.                                                                     *)
(***************************************************************************)
BoneNames == { "root", "arm", "crosshair" }

ParentLists(n) ==
  { p \in [1..n -> 0..(n - 1)] :
      /\ p[1] = 0
      /\ \A k \in 2..n : p[k] \in 1..(k - 1) }

\* The bone lists a skeleton file can hold; the runtime does not require the
\* names to differ.
BoneLists ==
  UNION { { [k \in 1..n |-> [name |-> names[k], parent |-> parents[k]]] :
              names \in [1..n -> BoneNames], parents \in ParentLists(n) } :
          n \in 1..MaxTreeBones }

RootEntity(e) == [spine |-> e, index |-> 0]

\* bone_parent: None
NoBoneParent == [entity |-> [spine |-> 0, index |-> 0], handle |-> 0]

\* Mutant: the parent descriptor carries the child's own handle.
SpineBoneParent_ChildHandle(bone_entity, bone, child) ==
  [entity |-> bone_entity, handle |-> child]

\* Some(SpineBoneParent { entity: parent.parent_entity(), handle:
\* bone.handle() }), built while the children of bone are spawned under
\* bone_entity
SpineBoneParent(bone_entity, bone, child) ==
  [entity |-> bone_entity, handle |-> bone]

\* Mutant: the map records the entity the bone entity was spawned under.
BonesInsert_Parent(bones, name, bone_entity, parent) ==
  (name :> parent) @@ bones

\* bones.insert(bone.data().name().to_owned(), bone_entity): an entry of
\* the same name is replaced
BonesInsert(bones, name, bone_entity, parent) ==
  (name :> bone_entity) @@ bones

\* bone.children(), in skeleton order
Children(skeleton, bone) ==
  { k \in 1..Len(skeleton) : skeleton[k].parent = bone }

RECURSIVE spawn_bones(_, _, _, _, _, _)
RECURSIVE SpawnChildren(_, _, _, _, _, _)

\* for child in bone.children() { spawn_bones(..) } inside the with_children
\* of bone_entity
SpawnChildren(spine_entity, bone_entity, skeleton, bone, todo, st) ==
  IF todo = {} THEN st
  ELSE LET child == CHOOSE c \in todo : \A d \in todo : c <= d
       IN SpawnChildren(spine_entity, bone_entity, skeleton, bone,
                        todo \ {child},
                        spawn_bones(spine_entity,
                                    SpineBoneParent(bone_entity, bone, child),
                                    bone_entity, skeleton, child, st))

\* spawn_bones: st.spawned are the bone entities spawned so far (the next
\* entity id follows them), st.bones the name map.  The bone entity is
\* spawned under parent, then its children under it, then it is entered in
\* the map.
spawn_bones(spine_entity, bone_parent, parent, skeleton, bone, st) ==
  LET bone_entity == [spine |-> spine_entity, index |-> Len(st.spawned) + 1]
      spawned == Append(st.spawned,
                        [id |-> bone_entity, child_of |-> parent,
                         spine_entity |-> spine_entity, handle |-> bone,
                         name |-> skeleton[bone].name, parent |-> bone_parent])
      st1 == SpawnChildren(spine_entity, bone_entity, skeleton, bone,
                           Children(skeleton, bone),
                           [st EXCEPT !.spawned = spawned])
  IN [st1 EXCEPT !.bones =
        BonesInsert(@, skeleton[bone].name, bone_entity, parent)]

\* let mut bones = HashMap::new(); no bone entity spawned yet
NoBones == [spawned |-> << >>, bones |-> << >>]

\* The loop body of spine_spawn for root entity e with its bones: when the
\* skeleton is built, the command carries the bone entities to spawn and the
\* ready event the map filled by spawn_bones (empty without with_children).
SpawnOneBones(st, e) ==
  LET st1 == SpawnOne(st, e)
      w == st.world[e]
      a == skeleton_data_assets[w.skeleton]
      b == IF w.with_children
           THEN spawn_bones(e, NoBoneParent, RootEntity(e), a.bone_data, 1,
                            NoBones)
           ELSE NoBones
  IN IF Len(st1.commands) = Len(st.commands) THEN st1
     ELSE [st1 EXCEPT
             !.commands[Len(st1.commands)] =
                @ @@ [bone_entities |-> b.spawned],
             !.ready_events[Len(st1.ready_events)] =
                [entity |-> e, bones |-> b.bones]]

RECURSIVE SpawnAllBones(_, _)
SpawnAllBones(st, e) ==
  IF e > MaxEnt THEN st ELSE SpawnAllBones(SpawnOneBones(st, e), e + 1)

spine_spawn_bones ==
  /\ Running("spine_spawn")
  /\ done' = done \cup {"spine_spawn"}
  /\ LET st == SpawnAllBones([world |-> world, commands |-> commands,
                              ready_events |-> ready_events], 1)
     IN /\ world' = st.world
        /\ commands' = st.commands
        /\ ready_events' = st.ready_events
  /\ hist' = [hist EXCEPT !.spawn_eligible =
                { e \in Ent : /\ world[e].loader = "Loading"
                              /\ skeleton_data_assets[world[e].skeleton].status
                                   = "Loaded" }]
  /\ UNCHANGED << started, atlases, skeletons, skeleton_data_assets, ready_bus,
                  spine_event_queue, spine_event_bus, spine_textures,
                  texture_bus >>

\* The command of one skeleton applied, its bone entities included
ApplyBoneCommand(w, c) ==
  [ApplyCommand(w, c) EXCEPT ![c.entity].bone_entities = c.bone_entities]

RECURSIVE ApplyBoneCommands(_, _)
ApplyBoneCommands(w, cs) ==
  IF cs = << >> THEN w
  ELSE ApplyBoneCommands(ApplyBoneCommand(w, Head(cs)), Tail(cs))

apply_deferred_bones ==
  /\ Running("apply_deferred")
  /\ done' = done \cup {"apply_deferred"}
  /\ world' = ApplyBoneCommands(world, commands)
  /\ commands' = << >>
  /\ UNCHANGED << started, atlases, skeletons, skeleton_data_assets,
                  ready_events, ready_bus, spine_event_queue, spine_event_bus,
                  spine_textures, texture_bus, hist >>

BoneSchedule ==
  { SpawnSystem, SpawnFlushSystem, ReadySystem }
    \cup { c \in UserSystems : c.sys = "on_ready" }

\* Between two frames: the skeleton data with bone list bone_data is Loaded,
\* the application has spawned n bundles referencing it.
BoneWorld(n, wc, bone_data) ==
  /\ started = {}
  /\ done = {}
  /\ atlases = [d \in Data |-> [state |-> "Loaded", pma |-> FALSE]]
  /\ skeletons = [d \in Data |-> [present |-> TRUE, ok |-> TRUE,
                                  slots |-> 0, bones |-> Len(bone_data)]]
  /\ skeleton_data_assets =
       [d \in Data |->
          [status |-> "Loaded", premultiplied_alpha |-> FALSE,
           slots |-> 0, bones |-> Len(bone_data)]
            @@ [bone_data |-> bone_data]]
  /\ world = [e \in Ent |->
                (IF e <= n
                 THEN [NoEntity EXCEPT !.loader = "Loading",
                                       !.with_children = wc[e],
                                       !.drawer = "None"]
                 ELSE NoEntity) @@ [bone_entities |-> << >>]]
  /\ commands = << >>
  /\ ready_events = << >>
  /\ ready_bus = << >>
  /\ spine_event_queue = << >>
  /\ spine_event_bus = << >>
  /\ spine_textures = [handles |-> [d \in Data |-> TexturePath(d)],
                       remember |-> << >>, forget |-> << >>]
  /\ texture_bus = << >>
  /\ hist = [ iter_mut |-> FALSE,
              ready_sent |-> [e \in Ent |-> 0],
              updated |-> [e \in Ent |-> FALSE],
              on_ready_query |-> [e \in Ent |-> "none"],
              parses |-> [d \in Data |-> 1],
              spawn_eligible |-> {},
              listener_calls |-> << >>,
              texture_events |->
                [d \in Data |->
                   [kind |-> "Create", path |-> TexturePath(d),
                    config |-> [premultiplied_alpha |-> atlases[d].pma]]] ]

BoneInit ==
  \E n \in 1..MaxEnt, wc \in [Ent -> BOOLEAN], bone_data \in BoneLists :
     /\ \A e \in Ent : e > n => ~wc[e]
     /\ BoneWorld(n, wc, bone_data)

BoneNext ==
  \/ \E s \in SystemsOf(BoneSchedule) : Start(BoneSchedule, s)
  \/ spine_spawn_bones
  \/ apply_deferred_bones
  \/ spine_ready
  \/ on_ready
  \/ FrameEnd(BoneSchedule)

BoneSpec == BoneInit /\ [][BoneNext]_vars

(***************************************************************************)
(* The mesh builder alone: skeletons that are Ready, with one mesh entity  *)
(* per slot, whose settings the application may change between two frames. *)
(* A mesh entity is one record: the SpineMesh state, the z of its          *)
(* Transform in thousandths, the streams of its Mesh asset (the index      *)
(* buffer as an optional set of indices, each attribute stream by its      *)
(* length), whether it carries Mesh2d and Mesh3d and, per material kind,   *)
(* the id of the material handle it carries (0 for none); alive is FALSE  *)
(* once the mesh entity is despawned.  renderables is                      *)
(* what the controller returned to the builder in its last run.  A         *)
(* skeleton data lists what its slots and attachments can give a           *)
(* renderable: vertex counts, blend modes, premultiplied alpha.            *)
(***************************************************************************)
MeshTypes == { "Mesh2D", "Mesh3D" }

Drawers == { "Combined", "Separated", "None" }

\* SkeletonRenderableKind
Kind(drawer) == IF drawer = "Separated" THEN "Simple" ELSE "Combined"

\* The material kinds registered with the application: built-in kinds of
\* SpinePlugin and the MyMaterial of examples/custom_material.rs.
BuiltinKinds ==
  { "SpineNormalMaterial", "SpineAdditiveMaterial",
    "SpineNormalPmaMaterial", "SpineAdditivePmaMaterial" }

MaterialKinds == BuiltinKinds \cup { "MyMaterial" }

\* The well-formed renderables of a controller over skeleton data data: n
\* vertices, n uvs, indices below n; a combined renderable has a color and a
\* dark color per vertex, a simple one has a single color and a single dark
\* color.
WellFormed(kind, data) ==
  UNION { { [ attachment_renderer_object |-> t, vertices |-> n,
              indices |-> i, uvs |-> n,
              colors |-> IF kind = "Simple" THEN 1 ELSE n,
              dark_colors |-> IF kind = "Simple" THEN 1 ELSE n,
              blend_mode |-> b, premultiplied_alpha |-> a ] :
              t \in BOOLEAN, i \in SUBSET (0..(n - 1)),
              b \in data.blend_modes, a \in data.pmas } :
          n \in data.vertices }

\* Mutant: the meshes of a skeleton keep the streams they have when they
\* become Empty.
empty_mesh_KeepsStreams(mesh) == mesh

\* empty_mesh: no indices, five streams of length zero
empty_mesh(mesh) ==
  [mesh EXCEPT !.indices = << >>, !.positions = 0, !.normals = 0,
               !.uvs = 0, !.colors = 0, !.dark_colors = 0]

\* Mutant: the marker is inserted when it is missing, never removed.
apply_mesh_NeverRemoves(entity, child, present, condition, marker) ==
  IF condition /\ ~present
  THEN << [entity |-> entity, child |-> child, op |-> "insert", marker |-> marker] >>
  ELSE << >>

\* apply_mesh!: the commands that attach or detach one marker of mesh entity
\* child of root entity entity.
apply_mesh(entity, child, present, condition, marker) ==
  IF condition
  THEN IF ~present
       THEN << [entity |-> entity, child |-> child, op |-> "insert", marker |-> marker] >>
       ELSE << >>
  ELSE IF present
       THEN << [entity |-> entity, child |-> child, op |-> "remove", marker |-> marker] >>
       ELSE << >>

\* Mutant: the single color of a simple renderable is not broadcast.
Colors_NotBroadcast(kind, renderable, colors) == colors

\* The color (dark color) stream the builder writes: one entry per vertex
\* for a simple renderable, the renderable's own for a combined one.
Colors(kind, renderable, colors) ==
  IF kind = "Simple" THEN renderable.vertices ELSE colors

\* normals: one zero normal per vertex
Normals(vertices) == vertices

\* Mutant: z stays where it is.
NextZ_Same(z) == z

\* z += 0.001
NextZ(z) == z + 1

\* Mutant: a skeleton with the drawer None is built like any other.
Skipped_NoneIsBuilt(w) == w.spine = 0 \/ w.containers = 0

\* The builder leaves out a root entity without a Spine component or a
\* meshes container, and one whose drawer is None.
Skipped(w) == w.spine = 0 \/ w.containers = 0 \/ w.drawer = "None"

\* SpineMaterialInfo { texture, blend_mode, premultiplied_alpha }, without
\* its slot_index; texture is the path of the SpineTexture the renderer
\* object points to.
SpineMaterialInfo(texture, renderable) ==
  [ texture |-> texture, blend_mode |-> renderable.blend_mode,
    premultiplied_alpha |-> renderable.premultiplied_alpha ]

\* Mutant: every mesh entity is given the first renderable.
NextRenderableIndex_Same(renderable_index) == renderable_index

\* renderable_index += 1, once per child that is a mesh entity
NextRenderableIndex(renderable_index) == renderable_index + 1

\* Mutant: a child of the meshes container is taken to exist.
MeshQueryGet_Dangling(child) == TRUE

\* mesh_query.get_mut(*child) is Ok: the child still exists
MeshQueryGet(child) == child.alive

\* The loop over the children of the meshes container of root entity e, from
\* child k on; st is the mesh entities and the commands so far, z and
\* renderable_index.
RECURSIVE UpdateChildren(_, _, _, _, _)
UpdateChildren(e, settings, renderables, st, k) ==
  IF k > Len(st.mesh_entities) THEN st
  ELSE IF ~MeshQueryGet(st.mesh_entities[k])
  THEN UpdateChildren(e, settings, renderables, st, k + 1)
  ELSE
    LET child == st.mesh_entities[k]
        kind == Kind(settings.drawer)
        cmds == apply_mesh(e, k, child.mesh2d, settings.mesh_type = "Mesh2D", "Mesh2d")
                  \o apply_mesh(e, k, child.mesh3d, settings.mesh_type = "Mesh3D", "Mesh3d")
        some == st.renderable_index < Len(renderables)
        renderable == renderables[st.renderable_index + 1]
        empty == ~some \/ ~renderable.attachment_renderer_object
        built ==
          IF empty
          THEN empty_mesh([child EXCEPT !.state = "Empty", !.info = << >>])
          ELSE [child EXCEPT !.indices = << renderable.indices >>,
                             !.positions = renderable.vertices,
                             !.normals = Normals(renderable.vertices),
                             !.uvs = renderable.uvs,
                             !.colors = Colors(kind, renderable, renderable.colors),
                             !.dark_colors = Colors(kind, renderable, renderable.dark_colors),
                             !.state = "Renderable",
                             !.info = << SpineMaterialInfo(settings.texture, renderable) >>,
                             !.z = st.z]
    IN UpdateChildren(e, settings, renderables,
         [ mesh_entities |-> [st.mesh_entities EXCEPT ![k] = built],
           commands |-> st.commands \o cmds,
           z |-> IF empty THEN st.z ELSE NextZ(st.z),
           renderable_index |-> NextRenderableIndex(st.renderable_index) ],
         k + 1)

\* One meshes container: root entity e with renderables r
UpdateContainer(st, r, e) ==
  IF Skipped(st.world[e]) THEN st
  ELSE
    LET w == st.world[e]
        out == UpdateChildren(e, [mesh_type |-> w.mesh_type, drawer |-> w.drawer,
                                  texture |-> TexturePath(w.spine)], r,
                 [ mesh_entities |-> w.mesh_entities, commands |-> st.commands,
                   z |-> 0, renderable_index |-> 0 ], 1)
    IN [ world |-> [st.world EXCEPT
                      ![e].mesh_entities = out.mesh_entities,
                      ![e].meshes = [k \in 1..Len(out.mesh_entities) |->
                                        out.mesh_entities[k].state],
                      ![e].renderables = r],
         commands |-> out.commands ]

\* The loop over meshes_query
RECURSIVE UpdateContainers(_, _, _)
UpdateContainers(st, r, e) ==
  IF e > MaxEnt THEN st
  ELSE UpdateContainers(UpdateContainer(st, r[e], e), r, e + 1)

\* The lists of renderables a controller can return for root entity w
ControllerRenderables(w) ==
  UNION { [1..n -> WellFormed(Kind(w.drawer), skeleton_data_assets[w.spine])] :
          n \in 0..Len(w.mesh_entities) }

\* What the controllers of the root entities from e on can return in one
\* run of the builder, by root entity; nothing is asked of a controller the
\* builder leaves out.
RECURSIVE Returned(_)
Returned(e) ==
  IF e > MaxEnt THEN { << >> }
  ELSE { << x >> \o rest :
           x \in (IF Skipped(world[e]) THEN { << >> }
                  ELSE ControllerRenderables(world[e])),
           rest \in Returned(e + 1) }

\* spine_update_meshes, with the streams it writes
spine_update_meshes_streams ==
  /\ Running("spine_update_meshes")
  /\ done' = done \cup {"spine_update_meshes"}
  /\ \E r \in Returned(1) :
        LET out == UpdateContainers([world |-> world, commands |-> commands], r, 1)
        IN /\ world' = out.world
           /\ commands' = out.commands
  /\ UNCHANGED << started, atlases, skeletons, skeleton_data_assets,
                  ready_events, ready_bus, spine_event_queue, spine_event_bus,
                  spine_textures, texture_bus, hist >>

\* An insert or remove command of the builder applied to the world
ApplyMeshCommand(w, c) ==
  IF c.marker = "Mesh2d"
  THEN [w EXCEPT ![c.entity].mesh_entities[c.child].mesh2d = (c.op = "insert")]
  ELSE [w EXCEPT ![c.entity].mesh_entities[c.child].mesh3d = (c.op = "insert")]

RECURSIVE ApplyMeshCommands(_, _)
ApplyMeshCommands(w, cs) ==
  IF cs = << >> THEN w
  ELSE ApplyMeshCommands(ApplyMeshCommand(w, Head(cs)), Tail(cs))

\* The builder's Commands are applied when the schedule has run its systems.
MeshFlushSystem ==
  [sys |-> "apply_deferred_meshes", in |-> {"MeshFlush"},
   after |-> {"UpdateMeshes"}, before |-> {}]

apply_deferred_meshes ==
  /\ Running("apply_deferred_meshes")
  /\ done' = done \cup {"apply_deferred_meshes"}
  /\ world' = ApplyMeshCommands(world, commands)
  /\ commands' = << >>
  /\ UNCHANGED << started, atlases, skeletons, skeleton_data_assets,
                  ready_events, ready_bus, spine_event_queue, spine_event_bus,
                  spine_textures, texture_bus, hist >>

\* The application changes the SpineSettings component of root entity e
\* between two frames.
change_settings(e, mesh_type, drawer) ==
  /\ BetweenFrames
  /\ world[e].spine # 0
  /\ << mesh_type, drawer >> # << world[e].mesh_type, world[e].drawer >>
  /\ world' = [world EXCEPT ![e].mesh_type = mesh_type, ![e].drawer = drawer]
  /\ UNCHANGED << started, done, atlases, skeletons, skeleton_data_assets,
                  commands, ready_events, ready_bus, spine_event_queue,
                  spine_event_bus, spine_textures, texture_bus, hist >>

MeshSchedule == { UpdateMeshesSystem, MeshFlushSystem }

\* The mesh entity spine_spawn creates for the slot at index
SpawnedMesh(index) ==
  [ state |-> "Empty", z |-> index, indices |-> << >>, positions |-> 0,
    normals |-> 0, uvs |-> 0, colors |-> 0, dark_colors |-> 0,
    mesh2d |-> FALSE, mesh3d |-> FALSE, alive |-> TRUE, info |-> << >>,
    materials |-> [kind \in MaterialKinds |-> 0] ]

\* Between two frames, after the first n root entities, of skeleton data
\* data, have become Ready with the given settings; my_spine tells which of
\* them the application has marked MySpine, extra the components a slice
\* adds to them.
MeshWorldWith(n, settings, my_spine, data, extra) ==
  /\ started = {}
  /\ done = {}
  /\ atlases = [d \in Data |-> [state |-> "Loaded", pma |-> FALSE]]
  /\ skeletons = [d \in Data |-> [present |-> TRUE, ok |-> TRUE,
                                  slots |-> data.slots, bones |-> 1]]
  /\ skeleton_data_assets =
       [d \in Data |-> [status |-> "Loaded", premultiplied_alpha |-> FALSE,
                        slots |-> data.slots, bones |-> 1] @@ data]
  /\ world = [e \in Ent |->
                extra[e] @@
                (IF e <= n
                 THEN [ReadyEntity(1, 1) EXCEPT
                         !.drawer = settings[e].drawer,
                         !.meshes = [k \in 1..data.slots |-> "Empty"]]
                 ELSE NoEntity)
                  @@ [ mesh_type |-> settings[e].mesh_type,
                       default_materials |-> settings[e].default_materials,
                       my_spine |-> my_spine[e],
                       mesh_entities |->
                         IF e <= n THEN [k \in 1..data.slots |-> SpawnedMesh(k - 1)]
                         ELSE << >>,
                       renderables |-> << >>,
                       material_assets |-> [kind \in MaterialKinds |-> {}] ]]
  /\ commands = << >>
  /\ ready_events = << >>
  /\ ready_bus = << >>
  /\ spine_event_queue = << >>
  /\ spine_event_bus = << >>
  /\ spine_textures = [handles |-> [d \in Data |-> TexturePath(d)],
                       remember |-> << >>, forget |-> << >>]
  /\ texture_bus = << >>
  /\ hist = [ iter_mut |-> FALSE,
              ready_sent |-> [e \in Ent |-> IF e <= n THEN 1 ELSE 0],
              updated |-> [e \in Ent |-> e <= n],
              on_ready_query |-> [e \in Ent |-> IF e <= n THEN "ok" ELSE "none"],
              parses |-> [d \in Data |-> 1],
              spawn_eligible |-> {},
              listener_calls |-> << >>,
              texture_events |->
                [d \in Data |->
                   [kind |-> "Create", path |-> TexturePath(d),
                    config |-> [premultiplied_alpha |-> atlases[d].pma]]] ]

MeshWorld(n, settings, my_spine, data) ==
  MeshWorldWith(n, settings, my_spine, data, [e \in Ent |-> << >>])

\* SpineSettings::default()
DefaultSettings ==
  [ default_materials |-> TRUE, mesh_type |-> "Mesh2D", drawer |-> "Combined" ]

\* A skeleton of MaxSlots slots whose attachments have up to MaxVertices
\* vertices, all slots with the Normal blend mode, on an atlas page that is
\* not premultiplied.
MeshData ==
  [ slots |-> MaxSlots, vertices |-> 0..MaxVertices,
    blend_modes |-> { "Normal" }, pmas |-> { FALSE } ]

MeshInit ==
  \E n \in 1..MaxDrawn, mesh_type \in [Ent -> MeshTypes], drawer \in [Ent -> Drawers] :
     /\ \A e \in Ent : e > n => mesh_type[e] = "Mesh2D" /\ drawer[e] = "Combined"
     /\ MeshWorld(n, [e \in Ent |-> [DefaultSettings EXCEPT !.mesh_type = mesh_type[e],
                                                            !.drawer = drawer[e]]],
                  [e \in Ent |-> FALSE], MeshData)

MeshNext ==
  \/ \E s \in SystemsOf(MeshSchedule) : Start(MeshSchedule, s)
  \/ spine_update_meshes_streams
  \/ apply_deferred_meshes
  \/ \E e \in Ent, mesh_type \in MeshTypes, drawer \in Drawers :
        change_settings(e, mesh_type, drawer)
  \/ FrameEnd(MeshSchedule)

MeshSpec == MeshInit /\ [][MeshNext]_vars

(***************************************************************************)
(* The material binder: one system per registered material kind, after the *)
(* mesh builder.  Assets<M> of a kind is a set of entries, each the id of  *)
(* its handle and the material; material_assets of a root entity holds the *)
(* entries of the materials bound to its mesh entities.  An Option is a    *)
(* sequence of length at most one.                                         *)
(***************************************************************************)
\* time.elapsed_seconds(), as the adapter of MyMaterial reads it
Times == { 1, 2 }

\* The blend mode and the premultiplied alpha a built-in kind is for
BlendModeOf(kind) ==
  IF kind \in { "SpineNormalMaterial", "SpineNormalPmaMaterial" }
  THEN "Normal" ELSE "Additive"

PmaOf(kind) == kind \in { "SpineNormalPmaMaterial", "SpineAdditivePmaMaterial" }

\* MyMaterial::default()
MyMaterialDefault == [ image |-> "", time |-> 0 ]

\* impl SpineMaterial for MyMaterial: update, for the root entity w
MyMaterial_update(material, w, renderable_data, time) ==
  IF w.my_spine
  THEN << [ (IF material = << >> THEN MyMaterialDefault ELSE material[1])
              EXCEPT !.image = renderable_data.texture, !.time = time ] >>
  ELSE << >>

\* Mutant: the adapter of a built-in kind does not look at the premultiplied
\* alpha of the render info.
Builtin_update_IgnoresPma(kind, material, w, renderable_data) ==
  IF w.default_materials /\ renderable_data.blend_mode = BlendModeOf(kind)
  THEN << [ image |-> renderable_data.texture ] >>
  ELSE << >>

\* The adapter of a built-in kind: Some when default_materials is on and the
\* render info has the pair of the kind.
Builtin_update(kind, material, w, renderable_data) ==
  IF /\ w.default_materials
     /\ renderable_data.blend_mode = BlendModeOf(kind)
     /\ renderable_data.premultiplied_alpha = PmaOf(kind)
  THEN << [ image |-> renderable_data.texture ] >>
  ELSE << >>

\* T::update of the kind
SpineMaterial_update(kind, material, w, renderable_data, time) ==
  IF kind = "MyMaterial"
  THEN MyMaterial_update(material, w, renderable_data, time)
  ELSE Builtin_update(kind, material, w, renderable_data)

\* The handle ids of the entries of assets
Ids(assets) == { a.id : a \in assets }

\* Assets::get
AssetOf(assets, id) == (CHOOSE a \in assets : a.id = id).material

\* Assets::add gives a handle no entry has: the least free id
Fresh(assets) ==
  CHOOSE id \in 1..(Cardinality(assets) + 1) :
     /\ id \notin Ids(assets)
     /\ \A j \in 1..(id - 1) : j \in Ids(assets)

\* Mutant: a material that is already attached is replaced by a new asset
\* with a new handle instead of being overwritten.
BindMesh_Recreates(w, kind, k, time) ==
  LET mesh == w.mesh_entities[k]
      handle == mesh.materials[kind]
      assets == w.material_assets[kind]
      result == SpineMaterial_update(kind, << >>, w, mesh.info[1], time)
      id == Fresh(assets)
  IN IF mesh.state # "Renderable" THEN w
     ELSE IF result # << >>
          THEN [w EXCEPT !.material_assets[kind] =
                            { a \in assets : a.id # handle }
                              \cup { [id |-> id, material |-> result[1]] },
                         !.mesh_entities[k].materials[kind] = id]
          ELSE [w EXCEPT !.material_assets[kind] = { a \in assets : a.id # handle },
                         !.mesh_entities[k].materials[kind] = 0]

\* Mutant: a material whose adapter returns None stays attached.
BindMesh_NeverDetaches(w, kind, k, time) ==
  LET mesh == w.mesh_entities[k]
      handle == mesh.materials[kind]
      assets == w.material_assets[kind]
      current == IF handle # 0 THEN << AssetOf(assets, handle) >> ELSE << >>
      result == SpineMaterial_update(kind, current, w, mesh.info[1], time)
      id == Fresh(assets)
  IN IF mesh.state # "Renderable" \/ result = << >> THEN w
     ELSE IF handle # 0
          THEN [w EXCEPT !.material_assets[kind] =
                            { a \in assets : a.id # handle }
                              \cup { [id |-> handle, material |-> result[1]] }]
          ELSE [w EXCEPT !.material_assets[kind] =
                            assets \cup { [id |-> id, material |-> result[1]] },
                         !.mesh_entities[k].materials[kind] = id]

\* The binder of a kind on mesh entity k of the root entity w: a mesh that
\* is not Renderable is passed over; Some with a handle attached overwrites
\* the material in place, Some without a handle adds a material and
\* attaches its handle, None with a handle detaches it and removes the
\* material, None without a handle does nothing.
BindMesh(w, kind, k, time) ==
  LET mesh == w.mesh_entities[k]
      handle == mesh.materials[kind]
      assets == w.material_assets[kind]
      current == IF handle # 0 THEN << AssetOf(assets, handle) >> ELSE << >>
      result == SpineMaterial_update(kind, current, w, mesh.info[1], time)
      id == Fresh(assets)
  IN IF mesh.state # "Renderable" THEN w
     ELSE IF result # << >>
          THEN IF handle # 0
               THEN [w EXCEPT !.material_assets[kind] =
                                 { a \in assets : a.id # handle }
                                   \cup { [id |-> handle, material |-> result[1]] }]
               ELSE [w EXCEPT !.material_assets[kind] =
                                 assets \cup { [id |-> id, material |-> result[1]] },
                              !.mesh_entities[k].materials[kind] = id]
          ELSE IF handle # 0
               THEN [w EXCEPT !.material_assets[kind] = { a \in assets : a.id # handle },
                              !.mesh_entities[k].materials[kind] = 0]
               ELSE w

\* The loop of the binder over the mesh entities of the root entity w
RECURSIVE BindMeshes(_, _, _, _)
BindMeshes(w, kind, k, time) ==
  IF k > Len(w.mesh_entities) THEN w
  ELSE BindMeshes(BindMesh(w, kind, k, time), kind, k + 1, time)

MaterialSystemName(kind) == "update_materials::<" \o kind \o ">"

\* The binder of a kind runs after the mesh builder, past the point where
\* the commands of the builder are applied.
MaterialSystem(kind) ==
  [sys |-> MaterialSystemName(kind), in |-> {"UpdateMaterials"},
   after |-> {"UpdateMeshes", "MeshFlush"}, before |-> {}]

update_materials(kind, time) ==
  /\ Running(MaterialSystemName(kind))
  /\ done' = done \cup {MaterialSystemName(kind)}
  /\ world' = [e \in Ent |-> BindMeshes(world[e], kind, 1, time)]
  /\ UNCHANGED << started, atlases, skeletons, skeleton_data_assets, commands,
                  ready_events, ready_bus, spine_event_queue, spine_event_bus,
                  spine_textures, texture_bus, hist >>

\* The application turns default_materials of root entity e on or off
\* between two frames.
change_default_materials(e) ==
  /\ BetweenFrames
  /\ world[e].spine # 0
  /\ world' = [world EXCEPT ![e].default_materials = ~@]
  /\ UNCHANGED << started, done, atlases, skeletons, skeleton_data_assets,
                  commands, ready_events, ready_bus, spine_event_queue,
                  spine_event_bus, spine_textures, texture_bus, hist >>

MaterialSchedule ==
  MeshSchedule \cup { MaterialSystem(kind) : kind \in MaterialKinds }

\* A skeleton of one slot, whose attachments have one vertex, with slots of
\* the Normal and of the Additive blend mode, on atlas pages with and
\* without premultiplied alpha.
MaterialData ==
  [ slots |-> 1, vertices |-> { 1 },
    blend_modes |-> { "Normal", "Additive" }, pmas |-> BOOLEAN ]

MaterialInit ==
  \E n \in 1..MaxDrawn, default_materials \in [Ent -> BOOLEAN],
     drawer \in [Ent -> { "Combined", "Separated" }], my_spine \in [Ent -> BOOLEAN] :
     /\ \A e \in Ent : e > n => /\ default_materials[e]
                                /\ drawer[e] = "Combined"
                                /\ ~my_spine[e]
     /\ MeshWorld(n, [e \in Ent |-> [DefaultSettings EXCEPT
                                       !.default_materials = default_materials[e],
                                       !.drawer = drawer[e]]],
                  my_spine, MaterialData)

MaterialNext ==
  \/ \E s \in SystemsOf(MaterialSchedule) : Start(MaterialSchedule, s)
  \/ spine_update_meshes_streams
  \/ apply_deferred_meshes
  \/ \E kind \in MaterialKinds, time \in Times : update_materials(kind, time)
  \/ \E e \in Ent : change_default_materials(e)
  \/ FrameEnd(MaterialSchedule)

MaterialSpec == MaterialInit /\ [][MaterialNext]_vars

(***************************************************************************)
(* Despawning: the application despawns a root entity, alone or with its   *)
(* children, or one bone or mesh entity, between two frames.  A despawned  *)
(* root entity has no component left (no Spine, no sync tag, no loader); a *)
(* despawned child stays in the record of its root as it was, with alive   *)
(* FALSE, so that a write to it would show.                                *)
(***************************************************************************)
\* What despawn (recursive = FALSE) and despawn_recursive make of the root
\* entity w
Despawned(w, recursive) ==
  [w EXCEPT !.loader = "NoEntity", !.spine = 0, !.sync = {},
            !.containers = IF recursive THEN 0 ELSE @,
            !.bone_alive = [k \in 1..Len(@) |-> @[k] /\ ~recursive],
            !.mesh_entities =
               [k \in 1..Len(@) |-> [@[k] EXCEPT !.alive = @ /\ ~recursive]]]

despawn(e, recursive) ==
  /\ BetweenFrames
  /\ world[e].spine # 0
  /\ world' = [world EXCEPT ![e] = Despawned(@, recursive)]
  /\ UNCHANGED << started, done, atlases, skeletons, skeleton_data_assets,
                  commands, ready_events, ready_bus, spine_event_queue,
                  spine_event_bus, spine_textures, texture_bus, hist >>

\* The application despawns bone entity k (child = "bone") or mesh entity k
\* (child = "mesh") of root entity e.
despawn_child(e, child, k) ==
  /\ BetweenFrames
  /\ IF child = "bone"
     THEN /\ k <= Len(world[e].bone_alive)
          /\ world[e].bone_alive[k]
          /\ world' = [world EXCEPT ![e].bone_alive[k] = FALSE]
     ELSE /\ k <= Len(world[e].mesh_entities)
          /\ world[e].mesh_entities[k].alive
          /\ world' = [world EXCEPT ![e].mesh_entities[k].alive = FALSE]
  /\ UNCHANGED << started, done, atlases, skeletons, skeleton_data_assets,
                  commands, ready_events, ready_bus, spine_event_queue,
                  spine_event_bus, spine_textures, texture_bus, hist >>

\* bone_query.iter_mut() yields the bone entities that exist: of what a
\* phase makes (r) of the bone entities of w, the Transform of a despawned
\* one is not part.
BoneQuery(w, r) ==
  [r EXCEPT !.transforms =
     [k \in 1..Len(@) |-> IF w.bone_alive[k] THEN @[k] ELSE w.transforms[k]]]

\* spine_sync_bones::<T> over the bone entities that exist: a bone whose
\* bone entity is despawned keeps its local translation.
SyncBonesExisting(w, T) ==
  IF ~Tagged(w, T) THEN w
  ELSE [w EXCEPT !.pose =
          [k \in 1..Len(@) |->
             LET x == IF k <= Len(w.transforms) /\ w.bone_alive[k]
                      THEN w.transforms[k] ELSE @[k].x
             IN [x |-> x, ax |-> Constrain(x)]]]

SyncSystems == { "spine_sync_entities", "spine_sync_bones", "spine_sync_entities_applied" }

\* The three systems of the barrier of tag T, over the bone entities that
\* exist
spine_sync_existing(system, T) ==
  /\ Running(SystemOf(system, T))
  /\ done' = done \cup {SystemOf(system, T)}
  /\ world' =
       [e \in Ent |->
          CASE system = "spine_sync_entities" ->
                 BoneQuery(world[e], SyncEntities(world[e], T))
            [] system = "spine_sync_bones" -> SyncBonesExisting(world[e], T)
            [] OTHER -> BoneQuery(world[e], SyncEntitiesApplied(world[e], T))]
  /\ UNCHANGED << started, atlases, skeletons, skeleton_data_assets, commands,
                  ready_events, ready_bus, spine_event_queue, spine_event_bus,
                  spine_textures, texture_bus, hist >>

DespawnSchedule ==
  { UpdateAnimationSystem, UpdateMeshesSystem, MeshFlushSystem }
    \cup SpineSynchronizerPlugin("SpineSync", Update)

\* A skeleton of MaxSlots slots whose attachments have one vertex
DespawnData ==
  [ slots |-> MaxSlots, vertices |-> { 1 },
    blend_modes |-> { "Normal" }, pmas |-> { FALSE } ]

\* Skeletons that are Ready and carry SpineSync, with their bone and mesh
\* entities and either drawer that draws
DespawnInit ==
  \E n \in 1..MaxDrawn, drawer \in { "Combined", "Separated" } :
     MeshWorldWith(n, [e \in Ent |-> [DefaultSettings EXCEPT !.drawer = drawer]],
                   [e \in Ent |-> FALSE],
                   DespawnData,
                   [e \in Ent |->
                      IF e <= n
                      THEN [ sync |-> { "SpineSync" }, bone_alive |-> << TRUE >> ]
                      ELSE [ bone_alive |-> << >> ]])

DespawnNext ==
  \/ \E s \in SystemsOf(DespawnSchedule) : Start(DespawnSchedule, s)
  \/ \E e \in Ent, recursive \in BOOLEAN : despawn(e, recursive)
  \/ \E e \in Ent, child \in { "bone", "mesh" }, k \in 1..MaxSlots :
        despawn_child(e, child, k)
  \/ spine_update_animation
  \/ \E system \in SyncSystems : spine_sync_existing(system, "SpineSync")
  \/ spine_update_meshes_streams
  \/ apply_deferred_meshes
  \/ FrameEnd(DespawnSchedule)

DespawnSpec == DespawnInit /\ [][DespawnNext]_vars

(***************************************************************************)
(* The bone-sync barrier on the whole local pose of a bone: translation,   *)
(* rotation and scale.  Angles are whole degrees and multiples of 90, so   *)
(* that the rotated X axis is exact; the rounding of the f32 conversions   *)
(* is not modelled.  A skeleton of the slice keeps its bones in bones and  *)
(* its bone entities' Transforms in bone_transforms, and logs the          *)
(* Transforms phase 1 and phase 4 left in the last two runs.               *)
(***************************************************************************)
\* Quat::from_axis_angle(Vec3::Z, deg.to_radians()) is
\* (0, 0, sin(deg / 2), cos(deg / 2)): it is determined by, and determines,
\* deg modulo 720, which stands for it here.
Quat_from_axis_angle_Z(deg) == deg % 720

\* rotation * Vec3::X: the X axis turned by the angle of the quaternion
RotatedX(rotation) ==
  CASE rotation % 360 = 0 -> [x |-> 1, y |-> 0]
    [] rotation % 360 = 90 -> [x |-> 0, y |-> 1]
    [] rotation % 360 = 180 -> [x |-> -1, y |-> 0]
    [] rotation % 360 = 270 -> [x |-> 0, y |-> -1]

\* Mutant: the angle is taken in [0, 360).
Atan2Degrees_Positive(ang) ==
  CASE ang = [x |-> 1, y |-> 0] -> 0
    [] ang = [x |-> 0, y |-> 1] -> 90
    [] ang = [x |-> -1, y |-> 0] -> 180
    [] ang = [x |-> 0, y |-> -1] -> 270

\* ang.y.atan2(ang.x).to_degrees()
Atan2Degrees(ang) ==
  CASE ang = [x |-> 1, y |-> 0] -> 0
    [] ang = [x |-> 0, y |-> 1] -> 90
    [] ang = [x |-> -1, y |-> 0] -> 180
    [] ang = [x |-> 0, y |-> -1] -> -90

\* The body of phase 1 for one bone: the Transform of its bone entity
BoneToTransform(bone) ==
  [ translation |-> [x |-> bone.x, y |-> bone.y],
    rotation |-> Quat_from_axis_angle_Z(bone.rotation),
    scale |-> [x |-> bone.scale_x, y |-> bone.scale_y] ]

\* Mutant: set_scale_x is given the Transform's scale.y.
TransformToBone_SwapsScale(bone, bone_transform) ==
  [bone EXCEPT !.x = bone_transform.translation.x,
               !.y = bone_transform.translation.y,
               !.rotation = Atan2Degrees(RotatedX(bone_transform.rotation)),
               !.scale_x = bone_transform.scale.y,
               !.scale_y = bone_transform.scale.y]

\* The body of phase 3 for one bone: set_x, set_y, set_rotation, set_scale_x,
\* set_scale_y from the Transform of its bone entity
TransformToBone(bone, bone_transform) ==
  [bone EXCEPT !.x = bone_transform.translation.x,
               !.y = bone_transform.translation.y,
               !.rotation = Atan2Degrees(RotatedX(bone_transform.rotation)),
               !.scale_x = bone_transform.scale.x,
               !.scale_y = bone_transform.scale.y]

\* skeleton.update_world_transform() for one bone: the applied pose is the
\* local pose, its translation kept within reach by a constraint.
UpdateWorldTransform(bone) ==
  [bone EXCEPT !.applied_x = Constrain(bone.x), !.applied_y = bone.y,
               !.applied_rotation = bone.rotation,
               !.applied_scale_x = bone.scale_x,
               !.applied_scale_y = bone.scale_y]

\* The body of phase 4 for one bone
AppliedToTransform(bone) ==
  [ translation |-> [x |-> bone.applied_x, y |-> bone.applied_y],
    rotation |-> Quat_from_axis_angle_Z(bone.applied_rotation),
    scale |-> [x |-> bone.applied_scale_x, y |-> bone.applied_scale_y] ]

\* The log of the last two runs with the Transforms of this run appended
Logged(log, transforms) ==
  IF Len(log) < 2 THEN Append(log, transforms) ELSE << log[2], transforms >>

\* One of the three systems of the barrier of tag T on the whole pose
SyncPose(w, system, T) ==
  IF ~Tagged(w, T) THEN w
  ELSE CASE system = "spine_sync_entities" ->
              LET ts == [k \in 1..Len(w.bones_local) |->
                           BoneToTransform(w.bones_local[k])]
              IN [w EXCEPT !.bone_transforms = ts,
                           !.after_phase1 = Logged(@, ts)]
         [] system = "spine_sync_bones" ->
              [w EXCEPT !.bones_local =
                 [k \in 1..Len(@) |->
                    UpdateWorldTransform(
                      TransformToBone(@[k], w.bone_transforms[k]))]]
         [] OTHER ->
              LET ts == [k \in 1..Len(w.bones_local) |->
                           AppliedToTransform(w.bones_local[k])]
              IN [w EXCEPT !.bone_transforms = ts,
                           !.after_phase4 = Logged(@, ts)]

spine_sync_pose(system, T) ==
  /\ Running(SystemOf(system, T))
  /\ done' = done \cup {SystemOf(system, T)}
  /\ world' = [e \in Ent |-> SyncPose(world[e], system, T)]
  /\ UNCHANGED << started, atlases, skeletons, skeleton_data_assets, commands,
                  ready_events, ready_bus, spine_event_queue, spine_event_bus,
                  spine_textures, texture_bus, hist >>

\* The local poses a bone of the slice is spawned with
Rotations == { -270, -90, 0, 90, 270, 450 }

BonePoses ==
  { UpdateWorldTransform(
      [ x |-> x, y |-> 0, rotation |-> rotation,
        scale_x |-> scale_x, scale_y |-> scale_y,
        applied_x |-> 0, applied_y |-> 0, applied_rotation |-> 0,
        applied_scale_x |-> 1, applied_scale_y |-> 1 ]) :
      x \in 0..MaxTranslation, rotation \in Rotations,
      scale_x \in { -1, 1 }, scale_y \in { 1, 2 } }

PoseSchedule == SpineSynchronizerPlugin("SpineSync", Update)

\* One Ready skeleton that carries SpineSync, with one bone in any of the
\* poses and its bone entity as spawn_bones left it
PoseInit ==
  \E bone \in BonePoses :
     MeshWorldWith(1, [e \in Ent |-> DefaultSettings], [e \in Ent |-> FALSE],
                   DespawnData,
                   [e \in Ent |->
                      IF e = 1
                      THEN [ sync |-> { "SpineSync" },
                             bones_local |-> << bone >>,
                             bone_transforms |-> << AppliedToTransform(bone) >>,
                             after_phase1 |-> << >>, after_phase4 |-> << >> ]
                      ELSE [ bones_local |-> << >>, bone_transforms |-> << >>,
                             after_phase1 |-> << >>, after_phase4 |-> << >> ]])

PoseNext ==
  \/ \E s \in SystemsOf(PoseSchedule) : Start(PoseSchedule, s)
  \/ \E system \in SyncSystems : spine_sync_pose(system, "SpineSync")
  \/ FrameEnd(PoseSchedule)

PoseSpec == PoseInit /\ [][PoseNext]_vars

(***************************************************************************)
(* Stage order                                                             *)
(***************************************************************************)
StageOrder ==
  << "spine_load", "spine_spawn", "apply_deferred", "spine_ready", "on_ready",
     "spine_update_animation", "on_event", "spine_update_meshes" >>

\* C1: within every frame the stages Load, Spawn, SpawnFlush, Ready, OnReady
\* user systems, UpdateAnimation, OnEvent user systems, UpdateMeshes run in
\* this order: whenever one of them has started, the one before it in the
\* list has finished.
C1_StageOrder ==
  \A i \in 1..(Len(StageOrder) - 1) :
     StageOrder[i + 1] \in started => StageOrder[i] \in done

\* A frame in which all stages ran and a skeleton was spawned and announced.
C1_Witness ==
  /\ done = Systems
  /\ ready_bus # << >>
  /\ spine_event_bus # << >>

\* C2: an entity that is Loading with a Loaded skeleton-data when the Spawn
\* stage of a frame runs is Ready, carries the Spine component and has had
\* its Ready event dispatched before any OnReady user system of that frame
\* starts.
C2_SpawnAndReadySameFrame ==
  "on_ready" \in started =>
     \A e \in hist.spawn_eligible :
        /\ world[e].loader = "Ready"
        /\ world[e].spine # 0
        /\ CountFor(ready_bus, e) = 1

C2_Witness ==
  /\ "on_ready" \in started
  /\ hist.spawn_eligible = Ent

\* C3: for every Ready event dispatched in a frame, a query for the Spine
\* component of the event's entity made after the Ready stage of that frame
\* succeeds.
C3_ReadyEventEntityHasSpine ==
  /\ "spine_ready" \in done =>
        \A i \in 1..Len(ready_bus) : world[ready_bus[i].entity].spine # 0
  /\ \A e \in Ent : hist.on_ready_query[e] # "missing"

C3_Witness ==
  \E e \in Ent : hist.on_ready_query[e] = "ok" /\ CountFor(ready_bus, e) = 1

(***************************************************************************)
(* Ready skeletons                                                         *)
(***************************************************************************)
SlotsOf(e) == skeleton_data_assets[world[e].skeleton].slots

Built(e) ==
  /\ world[e].spine # 0
  /\ world[e].containers = 1
  /\ Len(world[e].meshes) = SlotsOf(e)

PendingFor(e) == CountFor(commands, e) > 0

\* The statement of C4 as written: in every state a Ready entity carries the
\* Spine component and one mesh entity per slot.
C4_Original == \A e \in Ent : world[e].loader = "Ready" => Built(e)

C4_BuiltOnceFlushed ==
  \A e \in Ent : (world[e].loader = "Ready" /\ ~PendingFor(e)) => Built(e)

\* Only the flush changes the number of mesh entities or containers.
C4_MeshSetStable ==
  \A e \in Ent :
     (Len(world'[e].meshes) # Len(world[e].meshes)
        \/ world'[e].containers # world[e].containers)
     => (Running("apply_deferred") /\ "apply_deferred" \in done'
         /\ PendingFor(e))

\* C4 (amended): once the spawner's deferred commands for it have been
\* applied, every Ready skeleton entity carries the Spine component and has,
\* under its single meshes container, exactly as many mesh entities as its
\* skeleton has slots (none for a zero-slot skeleton); no step other than
\* that flush adds or removes mesh entities.
C4_Amended == []C4_BuiltOnceFlushed /\ [][C4_MeshSetStable]_vars

\* Two flushed Ready skeletons with slots, after the mesh builder has filled
\* a mesh of one of them.
C4_Witness ==
  /\ \A e \in Ent : world[e].loader = "Ready" /\ Built(e) /\ SlotsOf(e) >= 1
  /\ \E e \in Ent : world[e].meshes[1] = "Renderable"

\* C5: every entity that carries the Spine component has loader Ready and a
\* controller built from the Loaded skeleton-data its handle names; an entity
\* whose loader is Loading or Failed never carries it.
C5_SpineImpliesReady ==
  \A e \in Ent :
     world[e].spine # 0 =>
        /\ world[e].loader = "Ready"
        /\ world[e].spine = world[e].skeleton
        /\ skeleton_data_assets[world[e].spine].status = "Loaded"

C5_Witness ==
  /\ \E e \in Ent : world[e].spine # 0
  /\ \E e \in Ent : world[e].loader = "Loading"

\* C6: a controller is updated by the tick only after its Ready event has
\* been dispatched and the OnReady user systems of that frame have run.
C6_NoUpdateBeforeOnReady ==
  \A e \in Ent :
     hist.updated[e] => (hist.ready_sent[e] >= 1 /\ hist.on_ready_query[e] # "none")

C6_Witness ==
  \E e \in Ent : hist.updated[e] /\ CountFor(ready_bus, e) = 1

(***************************************************************************)
(* The skeleton-data state machine                                         *)
(***************************************************************************)
References(e, d) == world[e].loader # "NoEntity" /\ world[e].skeleton = d

DependenciesPresent(d) == atlases[d].state = "Loaded" /\ skeletons[d].present

\* C7: under fair execution of frames, an entity spawned Loading whose
\* skeleton-data asset has its atlas and its skeleton bytes present, the
\* bytes being parseable, eventually is Ready with the Spine component
\* attached and its Ready event dispatched.
C7_EventuallyReady ==
  \A e \in Ent, d \in Data :
     ( /\ world[e].loader = "Loading"
       /\ world[e].skeleton = d
       /\ skeleton_data_assets[d].status # "None"
       /\ DependenciesPresent(d)
       /\ skeletons[d].ok )
     ~> ( /\ world[e].loader = "Ready"
          /\ world[e].spine = d
          /\ hist.ready_sent[e] >= 1 )

\* An entity that waited, Loading, while a dependency was still missing, and
\* became Ready later.
C7_Witness ==
  \E e \in Ent :
     /\ world[e].loader = "Ready"
     /\ world[e].spine # 0
     /\ hist.ready_sent[e] = 1
     /\ \E f \in Ent : world[f].loader = "Loading"

\* C8: once the status of a skeleton-data asset is Loaded or Failed, no step
\* changes the asset or parses its bytes again.
C8_TerminalStatus ==
  [][ \A d \in Data :
        skeleton_data_assets[d].status \in {"Loaded", "Failed"} =>
           /\ skeleton_data_assets'[d] = skeleton_data_assets[d]
           /\ hist'.parses[d] = hist.parses[d] ]_vars

\* A loader tick of a later frame has run over a Failed entry.
C8_Witness ==
  \E d \in Data, e \in Ent :
     /\ skeleton_data_assets[d].status = "Failed"
     /\ world[e].loader = "Failed"
     /\ hist.spawn_eligible = {}
     /\ "spine_load" \in done
     /\ "spine_spawn" \notin done

\* C9: when parsing the skeleton bytes failed, the status is Failed; every
\* entity referencing that asset has no Spine component, no mesh or bone
\* children and no Ready event, queued or dispatched, and is no longer
\* Loading once the Spawn stage of a frame has run.
C9_ParseFailure ==
  \A d \in Data :
     /\ (hist.parses[d] >= 1 /\ ~skeletons[d].ok) =>
           skeleton_data_assets[d].status = "Failed"
     /\ skeleton_data_assets[d].status = "Failed" =>
           \A e \in Ent :
              References(e, d) =>
                 /\ world[e].spine = 0
                 /\ world[e].containers = 0
                 /\ world[e].meshes = << >>
                 /\ world[e].bones = 0
                 /\ hist.ready_sent[e] = 0
                 /\ CountFor(ready_events, e) = 0
                 /\ CountFor(ready_bus, e) = 0
                 /\ CountFor(commands, e) = 0
                 /\ "spine_spawn" \in done => world[e].loader = "Failed"

C9_Witness ==
  \E d \in Data :
     /\ hist.parses[d] = 1
     /\ skeleton_data_assets[d].status = "Failed"
     /\ \A e \in Ent : References(e, d) /\ world[e].loader = "Failed"
     /\ done = Systems

\* C10: while the atlas or the skeleton bytes of a skeleton-data asset are
\* absent (also when the atlas failed to parse and so never arrives), the
\* status is Loading, its bytes have not been parsed, and every entity
\* referencing it is Loading with no Spine component and no Ready event.
C10_MissingDependency ==
  \A d \in Data :
     (skeleton_data_assets[d].status # "None" /\ ~DependenciesPresent(d)) =>
        /\ skeleton_data_assets[d].status = "Loading"
        /\ hist.parses[d] = 0
        /\ \A e \in Ent :
              References(e, d) =>
                 /\ world[e].loader = "Loading"
                 /\ world[e].spine = 0
                 /\ hist.ready_sent[e] = 0
                 /\ CountFor(ready_events, e) = 0

\* The atlas failed to parse, the bytes are there, and the loader and the
\* spawner have run over the entry and its entity.
C10_Witness ==
  \E d \in Data, e \in Ent :
     /\ atlases[d].state = "Failed"
     /\ skeletons[d].present
     /\ skeleton_data_assets[d].status = "Loading"
     /\ References(e, d)
     /\ done = Systems

(***************************************************************************)
(* The animation-event bridge                                              *)
(***************************************************************************)
\* The SpineEvent a listener call is to be seen as on the event bus.
EventOf(call) ==
  [kind |-> call.event.kind, entity |-> call.controller, name |-> call.event.name]

\* The events sent in this frame, followed by the ones still queued.
Forwarded == spine_event_bus \o spine_event_queue

TickStep ==
  Running("spine_update_animation") /\ "spine_update_animation" \in done'

\* C11: the events on the engine event bus, and behind them the events still
\* queued, are in exactly the order in which the listeners were called,
\* whichever skeletons they belong to.
C11_FifoOrder ==
  /\ Len(Forwarded) = Len(hist.listener_calls)
  /\ \A i \in 1..Len(Forwarded) :
        Forwarded[i] = EventOf(hist.listener_calls[i])

\* A tick has forwarded events of both skeletons, pushed inside and outside
\* the tick.
C11_Witness ==
  /\ "spine_update_animation" \in done
  /\ Len(spine_event_bus) >= 3
  /\ \E i, j \in 1..Len(spine_event_bus) :
        /\ i < j
        /\ spine_event_bus[i] # spine_event_bus[j]
        /\ spine_event_bus[i].entity > spine_event_bus[j].entity

\* Number of places of the sequence that hold v
Occurrences(seq, v) == Cardinality({i \in 1..Len(seq) : seq[i] = v})

\* C12: every listener call yields exactly one SpineEvent of the same kind
\* and name, tagged with the root entity of the called controller: for each
\* controller and AnimationEvent there are as many such events sent or queued
\* as there were such calls, no event is both on the bus and in the queue
\* twice over, and a tick moves events from the queue to the bus without
\* adding or dropping any.
C12_ExactlyOnce ==
  /\ [] \A e \in Ent, a \in AnimationEvents :
          Occurrences(Forwarded, [kind |-> a.kind, entity |-> e, name |-> a.name])
            = Occurrences(hist.listener_calls, [controller |-> e, event |-> a])
  /\ [][ TickStep =>
           Len(spine_event_bus') + Len(spine_event_queue')
             = Len(spine_event_bus) + Len(spine_event_queue)
               + (Len(hist'.listener_calls) - Len(hist.listener_calls)) ]_vars

\* A keyed event of the second skeleton has been sent while another event,
\* pushed after the drain, waits in the queue.
C12_Witness ==
  /\ \E i \in 1..Len(spine_event_bus) :
        spine_event_bus[i] = [kind |-> "Event", entity |-> 2, name |-> "footstep"]
  /\ spine_event_queue # << >>

\* C13: a tick sends everything that was queued before it, ahead of the
\* events of its own controller updates, and leaves the queue empty; the
\* OnEvent user systems start only after the tick, and the mesh builder only
\* after them, so the events of a frame are on the bus when OnEvent runs.
C13_DrainedByNextTick ==
  /\ [][ TickStep =>
           LET own == Len(hist'.listener_calls) - Len(hist.listener_calls)
               before == Len(spine_event_bus) + Len(spine_event_queue)
           IN /\ spine_event_queue' = << >>
              /\ Len(spine_event_bus') = before + own
              /\ SubSeq(spine_event_bus', 1, before)
                   = spine_event_bus \o spine_event_queue
              /\ \A i \in 1..own :
                    spine_event_bus'[before + i]
                      = EventOf(hist'.listener_calls[
                                  Len(hist.listener_calls) + i]) ]_vars
  /\ [] ( /\ "on_event" \in started => "spine_update_animation" \in done
          /\ "spine_update_meshes" \in started => "on_event" \in done )

\* The OnEvent user systems run with two events of one skeleton on the bus:
\* one pushed outside the tick, sent ahead of the one the tick produced.
C13_Witness ==
  /\ "on_event" \in started
  /\ Len(spine_event_bus) >= 2
  /\ spine_event_bus[1].entity = spine_event_bus[2].entity
  /\ spine_event_bus[2].kind = "Event"

(***************************************************************************)
(* The bone-sync barrier                                                   *)
(***************************************************************************)
Phase1(T) == SystemOf("spine_sync_entities", T)
Phase3(T) == SystemOf("spine_sync_bones", T)
Phase4(T) == SystemOf("spine_sync_entities_applied", T)
BeforeSync(T) == SystemOf("before_sync", T)
DuringSync(T) == SystemOf("during_sync", T)
AfterSync(T) == SystemOf("after_sync", T)

Phases(T) == { Phase1(T), Phase3(T), Phase4(T) }

\* The step in which system s finishes
Finishes(s) == Running(s) /\ s \in done'

\* The statement of C14 as written: phase 1 of any sync tag starts only after
\* the OnEvent user systems have finished.
C14_Original ==
  \A T \in SyncTags : Phase1(T) \in started => "on_event" \in done

\* C14 (amended): the OnEvent user systems and phase 1 of every sync tag
\* start only after the animation tick has finished, and the mesh builder
\* starts only after the OnEvent user systems have finished; between the
\* OnEvent user systems and phase 1 no order is declared.
C14_Amended ==
  /\ "on_event" \in started => "spine_update_animation" \in done
  /\ \A T \in SyncTags :
        Phase1(T) \in started => "spine_update_animation" \in done
  /\ "spine_update_meshes" \in started => "on_event" \in done

\* The whole barrier of both tags has run while the OnEvent user systems
\* have not yet started.
C14_Witness ==
  /\ \A T \in SyncTags : Phases(T) \subseteq done
  /\ "on_event" \notin started

\* C15: every phase of every sync tag starts only after the animation tick
\* of the frame has finished, and the mesh builder starts only after every
\* phase has finished.
C15_BarrierBetweenTickAndMeshes ==
  \A T \in SyncTags : \A p \in Phases(T) :
     /\ p \in started => "spine_update_animation" \in done
     /\ "spine_update_meshes" \in started => p \in done

\* The mesh builder runs after the barriers of both tags moved a bone entity.
C15_Witness ==
  /\ "spine_update_meshes" \in started
  /\ \E e \in Ent : /\ world[e].sync = SyncTags
                     /\ world[e].transforms # << SetupPose.ax >>

\* C16: for each sync tag the frame runs BeforeSync user systems, phase 1,
\* DuringSync user systems, phase 3, phase 4, AfterSync user systems in this
\* order: each starts only after the one before it has finished.
C16_BarrierOrder ==
  \A T \in SyncTags :
     LET order == << BeforeSync(T), Phase1(T), DuringSync(T), Phase3(T),
                     Phase4(T), AfterSync(T) >>
     IN \A i \in 1..(Len(order) - 1) :
           order[i + 1] \in started => order[i] \in done

\* The AfterSync user systems of both tags have run.
C16_Witness ==
  \A T \in SyncTags : AfterSync(T) \in done

\* C17: a phase of tag T leaves every root entity that does not carry T as
\* it is: its bone entities' transforms and its skeleton's local and applied
\* pose.
C17_UntaggedUntouched ==
  [][ \A T \in SyncTags : \A p \in Phases(T) :
        Finishes(p) =>
           \A e \in Ent : T \notin world[e].sync => world'[e] = world[e] ]_vars

\* Both barriers have run over a skeleton without any sync tag whose bone
\* entity a user system had moved away from the bone.
C17_Witness ==
  /\ \A T \in SyncTags : Phases(T) \subseteq done
  /\ \E e \in Ent :
        /\ world[e].spine # 0
        /\ world[e].sync = {}
        /\ world[e].transforms[1] = MaxTranslation
        /\ world[e].pose[1].x # MaxTranslation

\* C18: phase 1 of MySpineSync, chained after SpineSync, starts only after
\* phase 4 and the AfterSync user systems of SpineSync have finished, and the
\* DuringSync user systems of MySpineSync start only after those of SpineSync
\* have finished.
C18_ChainedAfter ==
  /\ Phase1("MySpineSync") \in started =>
        /\ Phase4("SpineSync") \in done
        /\ AfterSync("SpineSync") \in done
  /\ DuringSync("MySpineSync") \in started => DuringSync("SpineSync") \in done

\* The DuringSync user systems of the chained tag are running.
C18_Witness ==
  /\ Running(DuringSync("MySpineSync"))
  /\ \E e \in Ent : world[e].sync = SyncTags

\* C19: for a skeleton carrying tag T, no step between the end of the
\* DuringSync user systems of T and the end of phase 3 of T changes the
\* translation of its bone entities; phase 3 makes that translation the
\* local translation of the bone and recomputes the applied one from it;
\* phase 4 makes the translation of the bone entity the applied one.
C19_UserTranslationApplied ==
  [][ \A T \in SyncTags : \A e \in Ent :
        Tagged(world[e], T) =>
           /\ (DuringSync(T) \in done /\ Phase3(T) \notin done) =>
                 world'[e].transforms = world[e].transforms
           /\ Finishes(Phase3(T)) =>
                 \A k \in 1..Len(world[e].transforms) :
                    /\ world'[e].pose[k].x = world[e].transforms[k]
                    /\ world'[e].pose[k].ax = Constrain(world[e].transforms[k])
           /\ Finishes(Phase4(T)) =>
                 \A k \in 1..Len(world[e].transforms) :
                    /\ world'[e].transforms[k] = world[e].pose[k].ax
                    /\ world'[e].pose[k] = world[e].pose[k] ]_vars

\* A DuringSync user system moved the bone entity of a tagged skeleton out of
\* reach: after phase 4 the bone holds that translation and the bone entity
\* the constrained one.
C19_Witness ==
  \E e \in Ent :
     /\ world[e].sync = {"SpineSync"}
     /\ Phase4("SpineSync") \in done
     /\ world[e].pose[1].x = MaxTranslation
     /\ world[e].transforms[1] = MaxReach

(***************************************************************************)
(* The texture bridge                                                      *)
(***************************************************************************)
\* The atlases whose page named path had its create callback run and its
\* dispose callback not yet
Outstanding(path) ==
  { a \in DOMAIN atlases :
      /\ atlases[a].state \in { "Parsed", "Loaded", "Removed" }
      /\ atlases[a].path = path }

\* C20: after every drain of the loader stage the live table holds, for each
\* texture path, exactly as many entries as there are atlases whose create
\* callback for that path has run and whose dispose callback has not.
C20_LiveTable ==
  [][ Finishes("spine_load") =>
        \A path \in PagePaths :
           Occurrences(spine_textures'.handles, path)
             = Cardinality(Outstanding(path)) ]_vars

\* The number of events of that kind and path in a sequence of texture events
EventCount(events, kind, path) ==
  Cardinality({ i \in 1..Len(events) :
                  events[i].kind = kind /\ events[i].path = path })

\* The events the drain of this step sends
Sent == SubSeq(texture_bus', Len(texture_bus) + 1, Len(texture_bus'))

\* The pending creates for path whose atlas has not been destroyed
AlivePending(path) ==
  { i \in 1..Len(spine_textures.remember) :
      /\ spine_textures.remember[i].path = path
      /\ atlases[spine_textures.remember[i].atlas_address].state
           # "Destroyed" }

\* C21: a drain sends one create event for every pending create whose atlas
\* has not been destroyed, whether or not the atlas has been registered in
\* Assets<Atlas> yet, and none for the others.
C21_AliveCreateSent ==
  [][ Finishes("spine_load") =>
        \A path \in PagePaths :
           EventCount(Sent, "Create", path) = Cardinality(AlivePending(path)) ]_vars

Min(a, b) == IF a < b THEN a ELSE b

\* C22: at every point of the sequence of texture events sent so far, no path
\* has had more dispose events than create events; a drain sends for each
\* path as many dispose events as there are pending disposes for it, but no
\* more than there are live entries for it once the pending creates are in,
\* and a pending dispose without a live entry sends nothing and leaves the
\* live table as it is.
C22_DisposeAfterCreate ==
  /\ [](\A k \in 0..Len(hist.texture_events) : \A path \in PagePaths :
          EventCount(SubSeq(hist.texture_events, 1, k), "Dispose", path)
            <= EventCount(SubSeq(hist.texture_events, 1, k), "Create", path))
  /\ [][ Finishes("spine_load") =>
          \A path \in PagePaths :
             LET live == Occurrences(spine_textures.handles, path)
                           + EventCount(Sent, "Create", path)
                 pending == Occurrences(spine_textures.forget, path)
             IN /\ EventCount(Sent, "Dispose", path) = Min(pending, live)
                /\ Occurrences(spine_textures'.handles, path)
                     = live - Min(pending, live) ]_vars

\* A dispose event was sent for the shared path after its create event, and
\* the dispose of an atlas with a path of its own, destroyed before it was
\* registered, was dropped.
C22_Witness ==
  /\ EventCount(hist.texture_events, "Dispose", "shared.png") = 1
  /\ EventCount(hist.texture_events, "Create", "own.png") = 0
  /\ \E a \in DOMAIN atlases :
        atlases[a].state = "Destroyed" /\ atlases[a].path = "own.png"
  /\ spine_textures.forget = << >>

(***************************************************************************)
(* The bone entities                                                       *)
(***************************************************************************)
\* The bone entities of root entity e that exist
BoneEntities(e) == world[e].bone_entities

\* The bone list of the skeleton data root entity e references
BoneData(e) == skeleton_data_assets[world[e].skeleton].bone_data

\* The names carried by the bone entities of root entity e
NamesOf(e) == { BoneEntities(e)[k].name : k \in 1..Len(BoneEntities(e)) }

EntityOfBone(e, b) ==
  BoneEntities(e)[CHOOSE k \in 1..Len(BoneEntities(e)) :
                    BoneEntities(e)[k].handle = b].id

\* C24: for a live skeleton spawned with with_children, there is exactly one
\* bone entity per bone, with an entity id of its own; the bone entity of the
\* root bone is a child of the skeleton entity and has no parent descriptor;
\* the bone entity of any other bone is a child of the bone entity of its
\* parent bone, and its parent descriptor names that entity and the handle
\* of the parent bone.
C24_BoneTree ==
  \A e \in Ent :
     (world[e].spine # 0 /\ world[e].with_children) =>
        LET be == BoneEntities(e)
            sk == BoneData(e)
        IN /\ Len(be) = Len(sk)
           /\ \A b \in 1..Len(sk) :
                 Cardinality({ k \in 1..Len(be) : be[k].handle = b }) = 1
           /\ \A j, k \in 1..Len(be) : j # k => be[j].id # be[k].id
           /\ \A k \in 1..Len(be) :
                 LET b == be[k].handle IN
                 /\ be[k].spine_entity = e
                 /\ be[k].id # RootEntity(e)
                 /\ IF sk[b].parent = 0
                    THEN /\ be[k].child_of = RootEntity(e)
                         /\ be[k].parent = NoBoneParent
                    ELSE /\ be[k].child_of = EntityOfBone(e, sk[b].parent)
                         /\ be[k].parent =
                              [entity |-> EntityOfBone(e, sk[b].parent),
                               handle |-> sk[b].parent]

\* Two live skeletons with bone entities, of four bones each, where a bone is
\* not spawned in the position it has in the skeleton.
C24_Witness ==
  /\ \A e \in Ent : world[e].spine # 0 /\ Len(BoneEntities(e)) = 4
  /\ \E k \in 1..4 : BoneEntities(1)[k].handle # k

(***************************************************************************)
(* The mesh builder                                                        *)
(***************************************************************************)
\* The builder or the application of its commands finishes in this step.
MeshStage == Finishes("spine_update_meshes") \/ Finishes("apply_deferred_meshes")

\* C25: for a skeleton whose drawer is None the mesh builder changes nothing
\* on its mesh entities: the builder and the application of its commands
\* leave their streams, state, z and markers as they are, and the builder
\* queues no command for them.
C25_NoneDrawerUntouched ==
  [][ \A e \in Ent :
        (MeshStage /\ world[e].spine # 0 /\ world[e].drawer = "None")
          => /\ world'[e].mesh_entities = world[e].mesh_entities
             /\ \A i \in 1..Len(commands') : commands'[i].entity # e ]_vars

\* The stage has run over a skeleton with the drawer None whose first mesh
\* is still Renderable, with streams and a marker, from an earlier frame.
C25_Witness ==
  \E e \in Ent :
     /\ world[e].spine # 0
     /\ world[e].drawer = "None"
     /\ "apply_deferred_meshes" \in done
     /\ world[e].mesh_entities[1].state = "Renderable"
     /\ world[e].mesh_entities[1].positions > 0
     /\ world[e].mesh_entities[1].mesh2d

\* The mesh entities of root entity e
MeshEntities(e) == world[e].mesh_entities

\* C26: for every mesh entity whose state is Renderable the position,
\* normal, UV, color and dark-color streams all have the length of the
\* renderable's vertex count and every index of the index buffer is below
\* it, with the Combined and with the Separated drawer.
C26_StreamsCoherent ==
  \A e \in Ent : \A k \in 1..Len(MeshEntities(e)) :
     LET mesh == MeshEntities(e)[k]
     IN mesh.state = "Renderable" =>
          /\ k <= Len(world[e].renderables)
          /\ mesh.positions = world[e].renderables[k].vertices
          /\ mesh.normals = mesh.positions
          /\ mesh.uvs = mesh.positions
          /\ mesh.colors = mesh.positions
          /\ mesh.dark_colors = mesh.positions
          /\ Len(mesh.indices) = 1
          /\ \A i \in mesh.indices[1] : i < mesh.positions

\* The builder has run with the Separated drawer and filled a mesh from a
\* renderable of MaxVertices vertices with one color.
C26_Witness ==
  \E e \in Ent :
     /\ "spine_update_meshes" \in done
     /\ world[e].drawer = "Separated"
     /\ Len(world[e].renderables) = MaxSlots
     /\ world[e].renderables[MaxSlots].colors = 1
     /\ MeshEntities(e)[MaxSlots].state = "Renderable"
     /\ MeshEntities(e)[MaxSlots].colors = MaxVertices
     /\ MeshEntities(e)[MaxSlots].indices = << 0..(MaxVertices - 1) >>

\* The Renderable mesh entities of root entity e before child k, in the
\* world w
RenderableBefore(w, e, k) ==
  Cardinality({ j \in 1..(k - 1) : w[e].mesh_entities[j].state = "Renderable" })

NothingToDraw(r, k) ==
  k > Len(r) \/ ~r[k].attachment_renderer_object

MarkerMatches(mesh, mesh_type) ==
  /\ mesh.mesh2d <=> (mesh_type = "Mesh2D")
  /\ mesh.mesh3d <=> (mesh_type = "Mesh3D")

\* C29: once the commands of the mesh builder are applied, every mesh entity
\* of a skeleton whose drawer is not None carries Mesh2d and not Mesh3d when
\* the mesh_type of the skeleton is Mesh2D, Mesh3d and not Mesh2d when it is
\* Mesh3D, also when the mesh_type was another one in earlier frames.
C29_MarkerMatchesMeshType ==
  [][ Finishes("apply_deferred_meshes") =>
        \A e \in Ent : ~Skipped(world[e]) =>
           \A k \in 1..Len(world'[e].mesh_entities) :
              MarkerMatches(world'[e].mesh_entities[k], world'[e].mesh_type) ]_vars

\* The commands of the builder are queued for a skeleton whose mesh_type was
\* changed from Mesh2D to Mesh3D: its first mesh entity still carries Mesh2d
\* and the commands remove Mesh2d from it and insert Mesh3d.
C29_Witness ==
  \E e \in Ent :
     /\ Running("apply_deferred_meshes")
     /\ ~Skipped(world[e])
     /\ world[e].mesh_type = "Mesh3D"
     /\ MeshEntities(e)[1].mesh2d
     /\ \E i, j \in 1..Len(commands) :
           /\ commands[i] = [entity |-> e, child |-> 1, op |-> "remove", marker |-> "Mesh2d"]
           /\ commands[j] = [entity |-> e, child |-> 1, op |-> "insert", marker |-> "Mesh3d"]

(***************************************************************************)
(* The material binder                                                     *)
(***************************************************************************)
\* What the binder of kind did to mesh entity k of root entity e in this
\* step, for the adapter result it got at the given time: the four cases of
\* handle attached or not and Some or None.
BoundAsClaimed(kind, e, k, time) ==
  LET mesh == world[e].mesh_entities[k]
      handle == mesh.materials[kind]
      assets == world[e].material_assets[kind]
      after == world'[e].mesh_entities[k].materials[kind]
      assets_after == world'[e].material_assets[kind]
      current == IF handle # 0 THEN << AssetOf(assets, handle) >> ELSE << >>
      result == SpineMaterial_update(kind, current, world[e], mesh.info[1], time)
  IN /\ (result # << >> /\ handle # 0) =>
          /\ after = handle
          /\ Ids(assets_after) = Ids(assets)
          /\ AssetOf(assets_after, handle) = result[1]
     /\ (result # << >> /\ handle = 0) =>
          /\ after # 0
          /\ after \notin Ids(assets)
          /\ Ids(assets_after) = Ids(assets) \cup { after }
          /\ AssetOf(assets_after, after) = result[1]
     /\ (result = << >> /\ handle # 0) =>
          /\ after = 0
          /\ Ids(assets_after) = Ids(assets) \ { handle }
     /\ (result = << >> /\ handle = 0) =>
          /\ after = 0
          /\ assets_after = assets

\* C30: in a run of the binder of a registered material kind, for each
\* Renderable mesh: with Some from the adapter and a handle of the kind
\* attached the material is overwritten under the same handle; with Some and
\* no handle a new material is added and its handle attached; with None and
\* a handle the handle is detached and the material removed; with None and
\* no handle nothing changes.
C30_BinderCases ==
  [][ \A kind \in MaterialKinds :
        Finishes(MaterialSystemName(kind)) =>
           \A e \in Ent : \A k \in 1..Len(world[e].mesh_entities) :
              world[e].mesh_entities[k].state = "Renderable" =>
                 \E time \in Times : BoundAsClaimed(kind, e, k, time) ]_vars

\* All binders of the frame have run on a Renderable mesh of a skeleton
\* marked MySpine, with default_materials on, whose render info is Additive
\* and premultiplied: the mesh carries a MyMaterial written at time 2, the
\* SpineAdditivePmaMaterial with the texture of the info, and no other
\* built-in material.
C30_Witness ==
  \E e \in Ent :
     /\ world[e].spine # 0
     /\ \A kind \in MaterialKinds : MaterialSystemName(kind) \in done
     /\ world[e].default_materials
     /\ world[e].my_spine
     /\ LET mesh == world[e].mesh_entities[1]
        IN /\ mesh.state = "Renderable"
           /\ mesh.info[1].blend_mode = "Additive"
           /\ mesh.info[1].premultiplied_alpha
           /\ mesh.materials["MyMaterial"] # 0
           /\ world[e].material_assets["MyMaterial"] =
                 { [ id |-> mesh.materials["MyMaterial"],
                     material |-> [ image |-> mesh.info[1].texture, time |-> 2 ] ] }
           /\ mesh.materials["SpineAdditivePmaMaterial"] # 0
           /\ \A kind \in BuiltinKinds \ { "SpineAdditivePmaMaterial" } :
                 /\ mesh.materials[kind] = 0
                 /\ world[e].material_assets[kind] = {}

\* The material stage of the frame is over: every binder has run.
MaterialStageDone ==
  \A kind \in MaterialKinds : MaterialSystemName(kind) \in done

StageStep == done' \ done # {}

\* The commands queued for root entity e, of them those for its mesh entity k
CommandsFor(cs, e) == { i \in 1..Len(cs) : cs[i].entity = e }

\* C32: after a root entity, a bone entity or a mesh entity was despawned
\* between frames, no stage writes it: a stage step leaves the bone and mesh
\* entities of a despawned skeleton (and the pose it had) as they were and
\* queues no command for them, it leaves the Transform of a despawned bone
\* entity and every component of a despawned mesh entity as they were, it
\* queues no command for a despawned mesh entity, and phase 3 does not take
\* a bone's translation from a despawned bone entity.
C32_DespawnedSkipped ==
  [][ StageStep =>
        \A e \in Ent :
           /\ world[e].spine = 0 =>
                 /\ world'[e] = world[e]
                 /\ CommandsFor(commands', e) = {}
           /\ \A k \in 1..Len(world[e].bone_alive) :
                 ~world[e].bone_alive[k] =>
                    /\ world'[e].transforms[k] = world[e].transforms[k]
                    /\ Finishes(SystemOf("spine_sync_bones", "SpineSync")) =>
                          world'[e].pose[k].x = world[e].pose[k].x
           /\ \A k \in 1..Len(world[e].mesh_entities) :
                 ~world[e].mesh_entities[k].alive =>
                    /\ world'[e].mesh_entities[k] = world[e].mesh_entities[k]
                    /\ \A i \in CommandsFor(commands', e) : commands'[i].child # k
    ]_vars

\* Every stage of a frame has completed for a skeleton whose first bone
\* entity and first mesh entity were despawned before its first frame and
\* whose root entity was despawned, without its children, after a frame:
\* the despawned bone entity still has the Transform it was spawned with
\* though the bone was animated, the despawned mesh entity is still Empty
\* though the second mesh entity was built.
C32_Witness ==
  \E e \in Ent :
     /\ done = SystemsOf(DespawnSchedule)
     /\ world[e].spine = 0
     /\ Len(world[e].mesh_entities) = MaxSlots
     /\ ~world[e].bone_alive[1]
     /\ world[e].transforms[1] = SetupPose.ax
     /\ world[e].pose[1].x # SetupPose.x
     /\ ~world[e].mesh_entities[1].alive
     /\ world[e].mesh_entities[1].state = "Empty"
     /\ world[e].mesh_entities[2].alive
     /\ world[e].mesh_entities[2].state = "Renderable"

(***************************************************************************)
(* The texture post-processor                                              *)
(***************************************************************************)
\* The entries the post-processor goes through in this step: those left
\* pending by earlier passes, then those of the create events of the frame
PendingEntries == spine_textures.fix \o ReadCreateEvents

\* How many times the event at position event of the log was applied
TimesAdjusted(adjusted, event) ==
  Cardinality({ i \in 1..Len(adjusted) : adjusted[i] = event })

\* C33: a pass of the post-processor applies every pending create event
\* whose image is present, once and for the first time (sampler installed,
\* pixels converted once more per premultiplied event of the image), and
\* removes it from the pending list; an event whose image is absent stays
\* pending, changes nothing and stops no other event; no event is ever
\* applied twice, and nothing but a pass touches sampler or pixels.
C33_AppliedOnceWhenPresent ==
  [][ LET images == spine_textures.images
          entries == PendingEntries
          Later == { spine_textures'.fix[i] : i \in 1..Len(spine_textures'.fix) }
          Applied(path) ==
            { i \in 1..Len(entries) :
                entries[i].handle = path /\ images[path].present }
      IN IF Finishes("adjust_spine_textures")
         THEN /\ \A i \in 1..Len(entries) :
                    IF images[entries[i].handle].present
                    THEN /\ TimesAdjusted(hist.adjusted, entries[i].event) = 0
                         /\ TimesAdjusted(hist'.adjusted, entries[i].event) = 1
                         /\ entries[i] \notin Later
                    ELSE /\ TimesAdjusted(hist'.adjusted, entries[i].event) = 0
                         /\ entries[i] \in Later
              /\ \A path \in PagePaths :
                    /\ spine_textures'.images[path].sampler =
                         IF Applied(path) # {} THEN "Descriptor"
                         ELSE images[path].sampler
                    /\ spine_textures'.images[path].converted =
                         images[path].converted
                           + Cardinality({ i \in Applied(path) :
                                 entries[i].config.premultiplied_alpha })
         ELSE /\ hist'.adjusted = hist.adjusted
              /\ \A path \in PagePaths :
                    /\ spine_textures'.images[path].sampler = images[path].sampler
                    /\ spine_textures'.images[path].converted = images[path].converted
    ]_vars

\* A pass is over in which the first create event, of a premultiplied
\* texture whose image is not loaded, stayed pending while the second event
\* was applied: its image has the sampler and was converted once.
C33_Witness ==
  /\ "adjust_spine_textures" \in done
  /\ hist.adjusted = << 2 >>
  /\ Len(spine_textures.fix) = 1
  /\ spine_textures.fix[1].event = 1
  /\ ~spine_textures.images[spine_textures.fix[1].handle].present
  /\ \E path \in PagePaths :
        /\ hist.texture_events[2].path = path
        /\ hist.texture_events[2].config.premultiplied_alpha
        /\ spine_textures.images[path] =
             [present |-> TRUE, sampler |-> "Descriptor", converted |-> 1]

\* C39: no image's pixel data goes through the premultiplied-alpha
\* conversion more than once, whatever create events are sent.
C39_ConvertedAtMostOnce ==
  \A path \in PagePaths : spine_textures.images[path].converted <= 1

NonNegativeW(rotation) == rotation <= 180 \/ rotation >= 540

RoundTrip(e) ==
  /\ Finishes(SystemOf("spine_sync_bones", "SpineSync"))
  /\ world[e].spine # 0
  /\ world[e].bone_transforms =
       [k \in 1..Len(world[e].bones_local) |->
          BoneToTransform(world[e].bones_local[k])]

\* The local pose of a bone: x, y, rotation in degrees, scale-x, scale-y
Local(bone) ==
  << bone.x, bone.y, bone.rotation, bone.scale_x, bone.scale_y >>

\* The statement of C35 as written: phase 1 followed by phase 3 leaves the
\* local pose of every bone exactly as it was.
C35_Original ==
  [][ \A e \in Ent :
         RoundTrip(e) =>
            \A k \in 1..Len(world[e].bones_local) :
               Local(world'[e].bones_local[k]) = Local(world[e].bones_local[k])
    ]_vars

\* C35: phase 1 followed by phase 3, without user mutation in between,
\* leaves x, y, scale-x and scale-y of every bone as they were and its
\* rotation as the angle within [-180, 180] that differs from it by a
\* multiple of 360 degrees.
C35_Amended ==
  [][ \A e \in Ent :
         RoundTrip(e) =>
            \A k \in 1..Len(world[e].bones_local) :
               LET before == world[e].bones_local[k]
                   after == world'[e].bones_local[k]
               IN /\ after.x = before.x
                  /\ after.y = before.y
                  /\ after.scale_x = before.scale_x
                  /\ after.scale_y = before.scale_y
                  /\ after.rotation >= -180
                  /\ after.rotation <= 180
                  /\ (after.rotation - before.rotation) % 360 = 0
    ]_vars

\* Phase 3 of the first run is over for a bone, mirrored in x, whose local
\* rotation was 450 degrees when phase 1 ran: its rotation is 90 degrees.
C35_Witness ==
  \E e \in Ent :
     /\ world[e].spine # 0
     /\ SystemOf("spine_sync_bones", "SpineSync") \in done
     /\ Len(world[e].after_phase1) = 1
     /\ world[e].after_phase1[1][1].rotation = Quat_from_axis_angle_Z(450)
     /\ world[e].after_phase1[1][1].scale.x = -1
     /\ world[e].bones_local[1].rotation = 90
     /\ world[e].bones_local[1].scale_x = -1

(***************************************************************************)
(* The AfterSync hook                                                      *)
(***************************************************************************)
\* C36: in every frame the user systems of a tag's AfterSync set start only
\* after phase 4 of the tag has finished, and the mesh builder starts only
\* after they have finished.
C36_AfterSyncBeforeMeshes ==
  \A T \in SyncTags :
     /\ SystemOf("after_sync", T) \in started =>
           SystemOf("spine_sync_entities_applied", T) \in done
     /\ "spine_update_meshes" \in started => SystemOf("after_sync", T) \in done

(***************************************************************************)
(* The renderable a mesh entity receives                                   *)
(***************************************************************************)
\* The builder finishes in this step, having gone through the meshes
\* container of root entity e with the Combined or the Separated drawer.
BuilderRan(e) ==
  /\ Finishes("spine_update_meshes")
  /\ ~Skipped(world[e])
  /\ world[e].drawer \in { "Combined", "Separated" }

\* Mesh entity mesh is as the builder leaves it on renderable renderable.
Received(mesh, renderable) ==
  IF renderable.attachment_renderer_object
  THEN /\ mesh.state = "Renderable"
       /\ mesh.positions = renderable.vertices
       /\ mesh.uvs = renderable.uvs
       /\ mesh.indices = << renderable.indices >>
       /\ mesh.info[1].blend_mode = renderable.blend_mode
  ELSE mesh.state = "Empty"

Existing(w, k) ==
  Cardinality({ j \in 1..k : w.mesh_entities[j].alive })

Registered ==
  { i \in 1..Len(spine_textures.remember) :
      atlases[spine_textures.remember[i].atlas_address].state = "Loaded" }

\* C38: when spine_load runs while no skeleton-data asset has the status
\* Loading, it does not call iter_mut on the skeleton-data collection,
\* changes no entry and parses nothing, and still drains the bridge: both
\* pending lists are empty afterwards and a create event was sent for every
\* pending create whose atlas is registered.
C38_IdleLoaderStillDrains ==
  [][ (/\ Finishes("spine_load")
       /\ \A d \in Data : skeleton_data_assets[d].status # "Loading")
      => /\ ~hist'.iter_mut
         /\ skeleton_data_assets' = skeleton_data_assets
         /\ hist'.parses = hist.parses
         /\ spine_textures'.remember = << >>
         /\ spine_textures'.forget = << >>
         /\ EventCount(SubSeq(texture_bus', Len(texture_bus) + 1, Len(texture_bus')),
                       "Create", "shared.png")
              + EventCount(SubSeq(texture_bus', Len(texture_bus) + 1, Len(texture_bus')),
                           "Create", "own.png")
              = Cardinality(Registered)
    ]_vars

\* spine_load has run in a frame in which the only skeleton-data asset was
\* Loaded: it did not call iter_mut, and it sent a create and a dispose
\* event of the bridge.
C38_Witness ==
  /\ "spine_load" \in done
  /\ \A d \in Data : skeleton_data_assets[d].status = "Loaded"
  /\ hist.parses[1] = 1
  /\ ~hist.iter_mut
  /\ \E i, j \in 1..Len(texture_bus) :
        texture_bus[i].kind = "Create" /\ texture_bus[j].kind = "Dispose"
  /\ spine_textures.remember = << >>
  /\ spine_textures.forget = << >>

(***************************************************************************)
(* Spawned once, Ready once                                                *)
(***************************************************************************)
\* The Ready events of root entity e, queued in SpineReadyEvents or
\* dispatched
ReadyEventsOf(e) == CountFor(ready_events, e) + hist.ready_sent[e]

\* C40: a root entity has a spawn command queued only in the step that
\* takes it from Loading to Ready, so a controller is built and children
\* are spawned for it at most once; a Spawn stage changes nothing on an
\* entity that is Ready or Failed and queues nothing for it; an entity has
\* exactly one Ready event, queued or dispatched, from the step that makes
\* it Ready on and none before or when it Failed, and never more than one
\* dispatched; the Ready stage leaves the SpineReadyEvents queue empty.
C40_SpawnedAndReadyOnce ==
  [][ /\ \A e \in Ent :
           /\ CountFor(commands', e) <= 1
           /\ CountFor(commands', e) > CountFor(commands, e) =>
                 world[e].loader = "Loading" /\ world'[e].loader = "Ready"
           /\ (Finishes("spine_spawn") /\ world[e].loader \in { "Ready", "Failed" }) =>
                 /\ world'[e] = world[e]
                 /\ CountFor(commands', e) = CountFor(commands, e)
                 /\ CountFor(ready_events', e) = CountFor(ready_events, e)
           /\ hist'.ready_sent[e] <= 1
           /\ CountFor(ready_events', e) + hist'.ready_sent[e] =
                 IF world'[e].loader = "Ready" THEN 1 ELSE 0
      /\ Finishes("spine_ready") => ready_events' = << >>
    ]_vars

\* The Spawn and Ready stages of a later frame have run over an entity that
\* was Ready and had been updated: its one Ready event was dispatched in an
\* earlier frame, none is dispatched in this one, and the queue is empty.
C40_Witness ==
  /\ "spine_ready" \in done
  /\ ready_events = << >>
  /\ ready_bus = << >>
  /\ \E e \in Ent :
        /\ world[e].loader = "Ready"
        /\ world[e].spine # 0
        /\ hist.ready_sent[e] = 1
        /\ hist.updated[e]

====
